---- MODULE Spec2Model ----
(***************************************************************************)
(* A model of the message filtering and attachment saving pipeline of the  *)
(* Email Attachment Extractor (src/src/core/outlook_manager.py).            *)
(*                                                                         *)
(* Text is modelled by TLA+ strings, taken apart character by character    *)
(* with SubSeq, so that lower-casing, trimming, splitting and substring    *)
(* tests are computed the way the Python code computes them.               *)
(***************************************************************************)
EXTENDS Integers, Sequences, FiniteSets, TLC

VARIABLES
    pc,                 \* position of the running handler
    providers_text,     \* the provider configuration text
    providers,          \* the parsed rule table (an insertion-ordered dict)
    log,                \* events sent to progress_callback, in order
    message,            \* the mail item under provider resolution
    include_result,     \* what _should_include_message returned
    history,            \* the calls of _should_include_message made on message so
                        \* far: configuration text, table, message and result
    settings,           \* the settings of the run (keyword, days, naming, mode, ...)
    mailbox,            \* folder name -> its items, in the store's own order
    today,              \* datetime.now()
    folder_access,      \* folder name -> "ok", "missing" (the lookup finds nothing)
                        \* or "raises" (reading its items raises)
    messages,           \* the list get_messages_from_folders returned
    checked,            \* per examined item, in retrieval order: what became of it
    folder_stats,       \* per scanned folder: the counters of line 465
    disk,               \* the save folder: lower-cased file name -> file
    writes,             \* the SaveAsFile calls that succeeded, in order
    saved_files,        \* final filename -> saved path
    latest_files,       \* "latest" mode: file_key -> received time of its claimant
    mi,                 \* save_attachments: index of the current message
    ai,                 \* save_attachments: index of the current attachment
    outlook_message,    \* save_attachments: the item found for the current message
    config,             \* ConfigManager.config of the running application
    config_file,        \* the configuration file as last written
    state_file,         \* automation_state.json as last written
    returned,           \* what the last automation handler returned
    workers,            \* the threads run_extraction started: thread -> its position
                        \* in extraction_in_thread and the locals it holds
    extract_btn,        \* state of the extract button
    testing             \* a thread of test_connection is running

providerVars == <<providers_text, providers, message, include_result, history>>

automationVars == <<config, config_file, state_file, returned>>

windowVars == <<workers, extract_btn, testing>>

envVars == <<settings, mailbox, today, folder_access, automationVars, windowVars>>

filterVars == <<messages, checked, folder_stats>>

saveVars == <<disk, writes, saved_files, latest_files, mi, ai, outlook_message>>

vars == <<pc, log, providerVars, envVars, filterVars, saveVars>>

(***************************************************************************)
(* Python str operations                                                   *)
(***************************************************************************)
Upper == "ABCDEFGHIJKLMNOPQRSTUVWXYZ"
LowerAlpha == "abcdefghijklmnopqrstuvwxyz"

Char(s, i) == SubSeq(s, i, i)

str_tail(s, i) == SubSeq(s, i, Len(s))

\* upper-case letter -> lower-case letter
ToLower ==
    [c \in {Char(Upper, i) : i \in 1..Len(Upper)} |->
        Char(LowerAlpha, CHOOSE i \in 1..Len(Upper) : Char(Upper, i) = c)]

LowerChar(c) == IF c \in DOMAIN ToLower THEN ToLower[c] ELSE c

RECURSIVE str_lower(_)
str_lower(s) ==
    IF s = "" THEN "" ELSE LowerChar(Char(s, 1)) \o str_lower(str_tail(s, 2))

\* p in s
str_in(p, s) ==
    \E i \in 1..(Len(s) - Len(p) + 1) : SubSeq(s, i, i + Len(p) - 1) = p

startswith(s, p) == Len(p) <= Len(s) /\ SubSeq(s, 1, Len(p)) = p

\* s.find(c) for a single character c that occurs in s (1-based)
str_find(s, c) ==
    CHOOSE i \in 1..Len(s) :
        Char(s, i) = c /\ \A j \in 1..(i - 1) : Char(s, j) # c

\* s.rfind(c) for a single character c; 0 when c does not occur
str_rfind(s, c) ==
    IF str_in(c, s)
    THEN CHOOSE i \in 1..Len(s) :
             Char(s, i) = c /\ \A j \in (i + 1)..Len(s) : Char(s, j) # c
    ELSE 0

IsSpace(c) == c \in {" ", "\t", "\r", "\n"}

RECURSIVE str_lstrip(_)
str_lstrip(s) ==
    IF s # "" /\ IsSpace(Char(s, 1)) THEN str_lstrip(str_tail(s, 2)) ELSE s

RECURSIVE str_rstrip(_)
str_rstrip(s) ==
    IF s # "" /\ IsSpace(Char(s, Len(s)))
    THEN str_rstrip(SubSeq(s, 1, Len(s) - 1))
    ELSE s

str_strip(s) == str_rstrip(str_lstrip(s))

\* s.split(sep) for a single character sep
RECURSIVE str_split(_, _)
str_split(s, sep) ==
    IF ~str_in(sep, s)
    THEN <<s>>
    ELSE LET i == str_find(s, sep)
         IN  <<SubSeq(s, 1, i - 1)>> \o str_split(str_tail(s, i + 1), sep)

RECURSIVE str_join(_, _)
str_join(parts, sep) ==
    IF parts = <<>> THEN ""
    ELSE IF Len(parts) = 1 THEN parts[1]
    ELSE parts[1] \o sep \o str_join(Tail(parts), sep)

(***************************************************************************)
(* Progress events: (message, level) pairs; the message text is kept as    *)
(* the kind of event and the number it carries.                            *)
(***************************************************************************)
Ev(level, event, arg) == [level |-> level, event |-> event, arg |-> arg]

(***************************************************************************)
(* A Python dict as the sequence of its items in insertion order:          *)
(* d[k] = v keeps the position of a key already present.                   *)
(***************************************************************************)
dict_set(d, k, v) ==
    IF \E i \in 1..Len(d) : d[i].key = k
    THEN [i \in 1..Len(d) |->
            IF d[i].key = k THEN [key |-> k, value |-> v] ELSE d[i]]
    ELSE Append(d, [key |-> k, value |-> v])

dict_keys(d) == {d[i].key : i \in 1..Len(d)}

(***************************************************************************)
(* OutlookManager._parse_provider_settings                                 *)
(***************************************************************************)
split_at(line, i) == <<SubSeq(line, 1, i - 1), str_tail(line, i + 1)>>

\* line.split('=', 1)
split_first_eq(line) == split_at(line, str_find(line, "="))

\* a parser that keeps the case of the pattern
sides_not_lowered(parts) ==
    [email |-> str_strip(parts[1]), provider |-> str_strip(parts[2])]

\* lines 136-137: the two sides of a split line
sides(parts) ==
    [email |-> str_lower(str_strip(parts[1])), provider |-> str_strip(parts[2])]

\* lines 139-143: a line that contains '='
add_rule(table, events, p, line_num) ==
    IF p.email # "" /\ p.provider # ""
    THEN [providers |-> dict_set(table, p.email, p.provider),
          log |-> Append(events,
                     Ev("SUCCESS", "rule", Len(dict_set(table, p.email, p.provider))))]
    ELSE [providers |-> table,
          log |-> Append(events, Ev("WARNING", "invalid_line", line_num))]

\* lines 127-145: one line, already stripped
parse_one_line(acc, line, line_num) ==
    IF line = "" \/ startswith(line, "#") THEN acc
    ELSE IF str_in("=", line)
    THEN add_rule(acc.providers, acc.log, sides(split_first_eq(line)), line_num)
    ELSE [providers |-> acc.providers,
          log |-> Append(acc.log, Ev("WARNING", "missing_equals", line_num))]

RECURSIVE parse_lines(_, _, _)
parse_lines(lines, line_num, acc) ==
    IF line_num > Len(lines) THEN acc
    ELSE parse_lines(lines, line_num + 1,
                     parse_one_line(acc, str_strip(lines[line_num]), line_num))

\* lines 147-152
parse_summary(r) ==
    [providers |-> r.providers,
     log |-> Append(r.log,
               IF r.providers # <<>>
               THEN Ev("SUCCESS", "configured", Len(r.providers))
               ELSE Ev("WARNING", "no_valid_filters", 0))]

parse_provider_settings(text) ==
    IF text = "" \/ str_strip(text) = ""
    THEN [providers |-> <<>>,
          log |-> <<Ev("INFO", "no_provider_filters", 0)>>]
    ELSE parse_summary(parse_lines(str_split(text, "\n"), 1,
             [providers |-> <<>>, log |-> <<Ev("INFO", "parsing", 0)>>]))

(***************************************************************************)
(* OutlookManager._should_include_message                                  *)
(*                                                                         *)
(* A property of a mail item is <<"ok", text>>, <<"missing", "">> (the     *)
(* attribute is absent or empty) or <<"raises", "">> (reading it raises).  *)
(***************************************************************************)
Ok(v) == <<"ok", v>>
Missing == <<"missing", "">>
Raises == <<"raises", "">>

is_smtp(addr) == str_in("@", addr) /\ ~startswith(addr, "/o=")

keep_if(addr, usable) == IF usable THEN addr ELSE ""

\* Methods 1 and 2: a lower-cased address that is no Exchange path
smtp_address(field) ==
    IF field[1] = "ok" THEN keep_if(str_lower(field[2]), is_smtp(str_lower(field[2])))
    ELSE ""

\* Methods 3 and 4: a text with '@'
text_address(field) ==
    IF field[1] = "ok" /\ str_in("@", field[2]) THEN str_lower(field[2]) ELSE ""

or_else(addr, fallback) == IF addr # "" THEN addr ELSE fallback

\* Method 4 (lines 190-196) is reached only without an address so far; hasattr
\* reads SenderName outside the inner try
after_method_3(addr, name_field) ==
    IF addr # "" THEN [raised |-> FALSE, sender_email |-> addr]
    ELSE IF name_field = Raises THEN [raised |-> TRUE, sender_email |-> ""]
    ELSE [raised |-> FALSE, sender_email |-> text_address(name_field)]

\* lines 160-196: [raised, sender_email]; raised when a read outside the inner
\* try blocks fails
sender_lookup(m) ==
    IF m.SenderEmailAddress = Raises
    THEN [raised |-> TRUE, sender_email |-> ""]
    ELSE after_method_3(
             or_else(smtp_address(m.SenderEmailAddress),
                 or_else(smtp_address(m.SenderAddress),
                         text_address(m.SmtpAddress))),
             m.SenderName)

\* a matcher with one direction of containment only
rule_matches_forward_only(configured_email, sender_email) ==
    str_in(configured_email, sender_email)

\* line 204
rule_matches(configured_email, sender_email) ==
    str_in(configured_email, sender_email) \/ str_in(sender_email, configured_email)

matching_rules(table, sender_email) ==
    {i \in 1..Len(table) : rule_matches(table[i].key, sender_email)}

\* the loop of line 203 returns at the first item that matches
pick_first(hits) == IF hits = {} THEN 0 ELSE CHOOSE i \in hits : \A j \in hits : i <= j

\* a matcher that answers with the label of the first rule of the table
match_result_of_first_rule(table, i) ==
    IF i = 0
    THEN [include |-> FALSE, label |-> "", log |-> <<>>]
    ELSE [include |-> TRUE, label |-> table[1].value,
          log |-> <<Ev("SUCCESS", "match", i)>>]

\* lines 203-208, for the index of the rule found (0: none)
match_result(table, i) ==
    IF i = 0
    THEN [include |-> FALSE, label |-> "", log |-> <<>>]
    ELSE [include |-> TRUE, label |-> table[i].value,
          log |-> <<Ev("SUCCESS", "match", i)>>]

\* a matcher that excludes a message without sender address
include_for_sender_fail_closed(s, table) ==
    IF s.raised \/ s.sender_email = ""
    THEN [include |-> FALSE, label |-> "", log |-> <<>>]
    ELSE match_result(table, pick_first(matching_rules(table, s.sender_email)))

\* lines 198-212, for the outcome of the sender lookup
include_for_sender(s, table) ==
    IF s.raised
    THEN [include |-> TRUE, label |-> "",
          log |-> <<Ev("WARNING", "provider_check_error", 0)>>]
    ELSE IF s.sender_email = ""
    THEN [include |-> TRUE, label |-> "",
          log |-> <<Ev("WARNING", "no_sender_email", 0)>>]
    ELSE match_result(table, pick_first(matching_rules(table, s.sender_email)))

should_include_message(m, table) ==
    IF table = <<>>
    THEN [include |-> TRUE, label |-> "", log |-> <<>>]
    ELSE include_for_sender(sender_lookup(m), table)

(***************************************************************************)
(* Dates and times.  A datetime is [day, minute]: day counts the days      *)
(* since 2024-01-01, minute the minutes since midnight.                    *)
(***************************************************************************)
DateTime(day, minute) == [day |-> day, minute |-> minute]

NoTime == DateTime(0, 0)

MinutesPerDay == 24 * 60

\* the sort key of a datetime
time_key(dt) == dt.day * MinutesPerDay + dt.minute

IsLeap(y) == (y % 4 = 0 /\ y % 100 # 0) \/ y % 400 = 0

DaysInMonth(y, m) ==
    IF m = 2 THEN (IF IsLeap(y) THEN 29 ELSE 28)
    ELSE IF m \in {4, 6, 9, 11} THEN 30 ELSE 31

RECURSIVE calendar_walk(_, _, _)
calendar_walk(y, m, rest) ==
    IF rest < DaysInMonth(y, m)
    THEN [year |-> y, month |-> m, day |-> rest + 1]
    ELSE IF m = 12
    THEN calendar_walk(y + 1, 1, rest - DaysInMonth(y, m))
    ELSE calendar_walk(y, m + 1, rest - DaysInMonth(y, m))

\* datetime.date()
date_of(dt) == calendar_walk(2024, 1, dt.day)

Digit(n) == Char("0123456789", n + 1)

pad2(n) == Digit((n \div 10) % 10) \o Digit(n % 10)

pad4(n) == pad2(n \div 100) \o pad2(n % 100)

\* str(n) for n >= 0
RECURSIVE int_str(_)
int_str(n) == IF n < 10 THEN Digit(n) ELSE int_str(n \div 10) \o Digit(n % 10)

format_date(d) == pad4(d.year) \o "-" \o pad2(d.month) \o "-" \o pad2(d.day)

\* strftime("%Y-%m-%d")
strftime_date(dt) == format_date(date_of(dt))

\* strftime("%Y")
strftime_year(dt) == pad4(date_of(dt).year)

(***************************************************************************)
(* os.path.splitext for a bare file name: <<root, ext>>                    *)
(***************************************************************************)
split_at_dot(name, dot) ==
    IF dot # 0 /\ \E j \in 1..(dot - 1) : Char(name, j) # "."
    THEN <<SubSeq(name, 1, dot - 1), str_tail(name, dot)>>
    ELSE <<name, "">>

splitext(name) == split_at_dot(name, str_rfind(name, "."))

(***************************************************************************)
(* The attachment classifier (lines 419-444 and 571-604)                   *)
(***************************************************************************)
skip_patterns ==
    <<"image001", "image002", "image003", "image004", "image005",
      "outlook-logo", "brandimage", "coverimage", "openlinkicon",
      "signature", "logo", "banner">>

doc_extensions ==
    <<".pdf", ".doc", ".docx", ".xls", ".xlsx", ".ppt", ".pptx",
      ".txt", ".csv", ".zip", ".rar", ".7z", ".xml", ".json">>

olByValue == 1

Attachment(filename, type) == [FileName |-> filename, Type |-> type]

\* lines 582-596; lowered is filename.lower()
has_skip_pattern(lowered) ==
    \E i \in 1..Len(skip_patterns) : str_in(skip_patterns[i], lowered)

\* lines 598-600; ext is the lower-cased extension
has_doc_extension(ext) == \E i \in 1..Len(doc_extensions) : doc_extensions[i] = ext

\* a classifier without the check of lines 582-596
is_document_by_extension(a) ==
    /\ a.Type = olByValue
    /\ a.FileName # ""
    /\ has_doc_extension(str_lower(splitext(a.FileName)[2]))

\* the attachment passes every check of the classifier
is_document(a) ==
    /\ a.Type = olByValue
    /\ a.FileName # ""
    /\ ~has_skip_pattern(str_lower(a.FileName))
    /\ has_doc_extension(str_lower(splitext(a.FileName)[2]))

\* a classifier that returns the documents last first
RECURSIVE classify_reversed(_)
classify_reversed(attachments) ==
    IF attachments = <<>> THEN <<>>
    ELSE IF is_document(Head(attachments))
    THEN classify_reversed(Tail(attachments)) \o <<Head(attachments).FileName>>
    ELSE classify_reversed(Tail(attachments))

\* lines 416-446
RECURSIVE classify(_)
classify(attachments) ==
    IF attachments = <<>> THEN <<>>
    ELSE IF is_document(Head(attachments))
    THEN <<Head(attachments).FileName>> \o classify(Tail(attachments))
    ELSE classify(Tail(attachments))

(***************************************************************************)
(* Mail items and the EmailMessage data class                              *)
(***************************************************************************)
MailItem(subject, sender, received, attachments) ==
    [Subject |-> subject,
     SenderEmailAddress |-> sender.SenderEmailAddress,
     SenderAddress |-> sender.SenderAddress,
     SmtpAddress |-> sender.SmtpAddress,
     SenderName |-> sender.SenderName,
     ReceivedTime |-> received,
     Attachments |-> attachments]

NoSender ==
    [SenderEmailAddress |-> Missing, SenderAddress |-> Missing,
     SmtpAddress |-> Missing, SenderName |-> Missing]

NoMessage == MailItem("", NoSender, <<"missing", NoTime>>, <<>>)

NoResult == [include |-> FALSE, label |-> "", log |-> <<>>]

EmailMessage(item, attachments, folder_name, provider_name) ==
    [subject |-> item.Subject,
     sender |-> IF item.SenderEmailAddress[1] = "ok"
                THEN item.SenderEmailAddress[2] ELSE "Unknown",
     received_time |-> item.ReceivedTime[2],
     attachments |-> attachments,
     folder_name |-> folder_name,
     provider_name |-> provider_name]

(***************************************************************************)
(* sorted(..., key=received time, reverse=True): a stable sort, so equal   *)
(* times keep their order                                                  *)
(***************************************************************************)
RECURSIVE insert_desc(_, _)
insert_desc(sorted, x) ==
    IF sorted = <<>> THEN <<x>>
    ELSE IF Head(sorted).key >= x.key
    THEN <<Head(sorted)>> \o insert_desc(Tail(sorted), x)
    ELSE <<x>> \o sorted

RECURSIVE sort_desc_from(_, _)
sort_desc_from(sorted, rest) ==
    IF rest = <<>> THEN sorted
    ELSE sort_desc_from(insert_desc(sorted, Head(rest)), Tail(rest))

values(s) == [i \in 1..Len(s) |-> s[i].value]

\* the elements of keyed (records [key, value]) by descending key
sort_desc(keyed) == values(sort_desc_from(<<>>, keyed))

\* a sort by descending key that puts the later of two equal keys first
RECURSIVE insert_desc_before_equals(_, _)
insert_desc_before_equals(sorted, x) ==
    IF sorted = <<>> THEN <<x>>
    ELSE IF Head(sorted).key > x.key
    THEN <<Head(sorted)>> \o insert_desc_before_equals(Tail(sorted), x)
    ELSE <<x>> \o sorted

RECURSIVE sort_unstable_from(_, _)
sort_unstable_from(sorted, rest) ==
    IF rest = <<>> THEN sorted
    ELSE sort_unstable_from(insert_desc_before_equals(sorted, Head(rest)), Tail(rest))

sort_messages_unstable(msgs) ==
    values(sort_unstable_from(<<>>,
               [i \in 1..Len(msgs) |->
                   [key |-> time_key(msgs[i].received_time), value |-> msgs[i]]]))

\* line 472
sort_messages(msgs) ==
    sort_desc([i \in 1..Len(msgs) |->
                  [key |-> time_key(msgs[i].received_time), value |-> msgs[i]]])

\* folder.Items after Sort("[ReceivedTime]", True)
sorted_items(items) ==
    sort_desc([i \in 1..Len(items) |->
                  [key |-> IF items[i].ReceivedTime[1] = "ok"
                           THEN time_key(items[i].ReceivedTime[2]) ELSE 0 - 1,
                   value |-> items[i]]])

(***************************************************************************)
(* OutlookManager.get_messages_from_folders, lines 392-463: what becomes   *)
(* of one item                                                             *)
(***************************************************************************)
keyword_rejects(keyword, subject) ==
    keyword # "" /\ ~str_in(str_lower(keyword), str_lower(subject))

\* a date check that compares the time of day as well
date_rejects_time_of_day(received, start_date) ==
    time_key(received) < time_key(start_date)

\* line 398
date_rejects(received, start_date) == received.day < start_date.day

\* lines 397-408: "" when the item passes the date and the keyword check
early_outcome(item, start_date, keyword) ==
    IF item.ReceivedTime[1] # "ok" THEN "no_date"
    ELSE IF date_rejects(item.ReceivedTime[2], start_date) THEN "date_filtered"
    ELSE IF keyword_rejects(keyword, item.Subject) THEN "keyword_filtered"
    ELSE ""

\* lines 411-456, for the result r of the provider check
provider_outcome(item, r) ==
    IF ~r.include
    THEN [outcome |-> "provider_filtered", label |-> "", log |-> r.log]
    ELSE IF item.SenderEmailAddress = Raises
    THEN [outcome |-> "error", label |-> "",
          log |-> Append(r.log, Ev("WARNING", "message_error", 0))]
    ELSE [outcome |-> "accepted", label |-> r.label, log |-> r.log]

rejected(outcome) == [outcome |-> outcome, label |-> "", log |-> <<>>]

\* a filter that asks the provider matcher before the date and keyword checks
provider_then_early(p, early) ==
    IF p.outcome = "accepted" /\ early # "" THEN rejected(early) ELSE p

check_message_provider_first(item, start_date, keyword, table) ==
    provider_then_early(provider_outcome(item, should_include_message(item, table)),
                        early_outcome(item, start_date, keyword))

early_then_provider(item, early, table) ==
    IF early # "" THEN rejected(early)
    ELSE provider_outcome(item, should_include_message(item, table))

check_message(item, start_date, keyword, table) ==
    early_then_provider(item, early_outcome(item, start_date, keyword), table)

\* lines 415-459: what one item adds to the result
scan_item(acc, item, folder_name, c) ==
    [messages |->
        IF c.outcome = "accepted"
        THEN Append(acc.messages,
                    EmailMessage(item, classify(item.Attachments), folder_name, c.label))
        ELSE acc.messages,
     checked |-> Append(acc.checked,
                    [folder_name |-> folder_name, item |-> item,
                     outcome |-> c.outcome, label |-> c.label]),
     log |-> acc.log \o c.log,
     stats |-> acc.stats]

\* one folder: lines 383-465
RECURSIVE scan_folder(_, _, _, _, _, _)
scan_folder(items, folder_name, start_date, keyword, table, acc) ==
    IF items = <<>> THEN acc
    ELSE scan_folder(Tail(items), folder_name, start_date, keyword, table,
             scan_item(acc, Head(items), folder_name,
                       check_message(Head(items), start_date, keyword, table)))

count_outcome(seen, folder_name, outcome) ==
    Cardinality({i \in 1..Len(seen) :
                    /\ seen[i].folder_name = folder_name
                    /\ seen[i].outcome = outcome})

\* lines 465-470: the statistics of one folder
with_folder_stats(r, f) ==
    [messages |-> r.messages,
     checked |-> r.checked,
     log |-> Append(r.log,
                Ev("INFO", "folder_stats", count_outcome(r.checked, f, "accepted"))),
     stats |-> Append(r.stats,
                [folder_name |-> f,
                 matches |-> count_outcome(r.checked, f, "accepted"),
                 date_filtered |-> count_outcome(r.checked, f, "date_filtered"),
                 keyword_filtered |-> count_outcome(r.checked, f, "keyword_filtered"),
                 provider_filtered |-> count_outcome(r.checked, f, "provider_filtered")])]

\* lines 379-381 and 467-469: the folder adds one event and nothing else
folder_skipped(acc, level, event) ==
    [messages |-> acc.messages, checked |-> acc.checked, stats |-> acc.stats,
     log |-> Append(acc.log, Ev(level, event, 0))]

\* a scan that ends at the first folder it cannot read
RECURSIVE scan_folders_until_failure(_, _, _, _, _, _, _)
scan_folders_until_failure(names, box, access, start_date, keyword, table, acc) ==
    IF names = <<>> THEN acc
    ELSE IF access[Head(names)] # "ok" THEN folder_skipped(acc, "ERROR", "folder_error")
    ELSE scan_folders_until_failure(Tail(names), box, access, start_date, keyword, table,
             with_folder_stats(
                 scan_folder(sorted_items(box[Head(names)]), Head(names),
                             start_date, keyword, table, acc),
                 Head(names)))

\* lines 367-469 and 62: one folder of the list
visit_folder(name, box, access, start_date, keyword, table, acc) ==
    IF access[name] = "missing"
    THEN folder_skipped(folder_skipped(acc, "WARNING", "not_in_any_store"),
                        "WARNING", "folder_not_found")
    ELSE IF access[name] = "raises" THEN folder_skipped(acc, "ERROR", "folder_error")
    ELSE with_folder_stats(
             scan_folder(sorted_items(box[name]), name, start_date, keyword, table, acc),
             name)

RECURSIVE scan_folders(_, _, _, _, _, _, _)
scan_folders(names, box, access, start_date, keyword, table, acc) ==
    IF names = <<>> THEN acc
    ELSE scan_folders(Tail(names), box, access, start_date, keyword, table,
             visit_folder(Head(names), box, access, start_date, keyword, table, acc))

\* lines 472-476
scan_result(table, r) ==
    [providers |-> table,
     messages |-> sort_messages(r.messages),
     checked |-> r.checked,
     stats |-> r.stats,
     log |-> Append(r.log, Ev("SUCCESS", "total_messages", Len(r.messages)))]

scan_with_rules(names, box, access, start_date, keyword, parsed) ==
    scan_result(parsed.providers,
        scan_folders(names, box, access, start_date, keyword, parsed.providers,
            [messages |-> <<>>, checked |-> <<>>, stats |-> <<>>,
             log |-> <<Ev("SUCCESS", "connected", 0)>> \o parsed.log]))

get_messages_from_folders(names, box, access, now, days_back, keyword, text) ==
    scan_with_rules(names, box, access, DateTime(now.day - days_back, now.minute),
                    keyword, parse_provider_settings(text))

(***************************************************************************)
(* OutlookManager.save_attachments: naming                                 *)
(***************************************************************************)
\* a prefix without the fallback for an empty label
provider_prefix_verbatim(msg) == msg.provider_name

\* line 619
provider_prefix(msg) ==
    IF msg.provider_name # "" THEN msg.provider_name ELSE "unknown"

\* a suffix that is the year whatever the format
naming_suffix_year_only(naming_format, custom_suffix, received_time) ==
    strftime_year(received_time)

\* lines 562-568
naming_suffix(naming_format, custom_suffix, received_time) ==
    IF naming_format = "date" THEN strftime_date(received_time)
    ELSE IF naming_format = "year" THEN strftime_year(received_time)
    ELSE IF custom_suffix # "" THEN custom_suffix ELSE "custom"

base_name(name) == IF str_in("_", name) THEN str_split(name, "_")[1] ELSE name

\* lines 608-609, for parts = os.path.splitext(original_name)
key_of(parts) == str_lower(base_name(parts[1]) \o parts[2])

file_key(original_name) == key_of(splitext(original_name))

\* the formulas of `all` mode used in both modes
name_with_ext_of_all_mode(mode, naming_format, prefix, suffix, custom_suffix, original_name, ext) ==
    IF naming_format = "original" THEN prefix \o "_" \o original_name
    ELSE IF naming_format \in {"year", "date"} THEN prefix \o suffix \o ext
    ELSE prefix \o custom_suffix \o ext

\* lines 621-638: the name before collision handling
name_with_ext(mode, naming_format, prefix, suffix, custom_suffix, original_name, ext) ==
    IF mode = "latest"
    THEN IF naming_format \in {"year", "date"}
         THEN prefix \o suffix \o ext
         ELSE prefix \o "_" \o original_name
    ELSE IF naming_format = "original" THEN prefix \o "_" \o original_name
    ELSE IF naming_format \in {"year", "date"} THEN prefix \o suffix \o ext
    ELSE prefix \o custom_suffix \o ext

candidate_filename(mode, naming_format, prefix, suffix, custom_suffix, original_name) ==
    name_with_ext(mode, naming_format, prefix, suffix, custom_suffix, original_name,
                  splitext(original_name)[2])

\* os.path.exists in the save folder; the program runs on Windows only
\* (win32com), where file names compare case-insensitively
path_exists(files, filename) == str_lower(filename) \in DOMAIN files

\* a saver that keeps the candidate name as it is
no_collision_handling(files, final_filename, counter) == final_filename

\* line 645
numbered(parts, counter) == parts[1] \o "_" \o int_str(counter) \o parts[2]

\* lines 641-648
RECURSIVE resolve_collision(_, _, _)
resolve_collision(files, final_filename, counter) ==
    IF path_exists(files, final_filename)
    THEN resolve_collision(files, numbered(splitext(final_filename), counter),
                           counter + 1)
    ELSE final_filename

\* a saver that numbers a taken name in both modes
final_name_always_resolved(files, mode, naming_format, prefix, suffix, custom_suffix, original_name) ==
    resolve_collision(files,
        candidate_filename(mode, naming_format, prefix, suffix, custom_suffix,
                           original_name), 1)

\* lines 621-651
final_name(files, mode, naming_format, prefix, suffix, custom_suffix, original_name) ==
    IF mode = "latest"
    THEN candidate_filename(mode, naming_format, prefix, suffix, custom_suffix,
                            original_name)
    ELSE resolve_collision(files,
             candidate_filename(mode, naming_format, prefix, suffix, custom_suffix,
                                original_name), 1)

path_join(folder, filename) == folder \o "\\" \o filename

first_of(hits) == IF hits = {} THEN 0 ELSE CHOOSE i \in hits : \A j \in hits : i <= j

\* a lookup that compares the received time to the minute
find_outlook_message_by_time(items, msg) ==
    first_of({i \in 1..Len(items) :
                 /\ items[i].Subject = msg.subject
                 /\ items[i].ReceivedTime[1] = "ok"
                 /\ items[i].ReceivedTime[2] = msg.received_time
                 /\ Len(items[i].Attachments) > 0})

\* lines 546-556: the first item of the folder with the subject, the received
\* date and at least one attachment; 0 when there is none
find_outlook_message(items, msg) ==
    first_of({i \in 1..Len(items) :
                 /\ items[i].Subject = msg.subject
                 /\ items[i].ReceivedTime[1] = "ok"
                 /\ items[i].ReceivedTime[2].day = msg.received_time.day
                 /\ Len(items[i].Attachments) > 0})

\* d[k] = v for a dict kept as a function
map_set(d, k, v) == [x \in DOMAIN d \cup {k} |-> IF x = k THEN v ELSE d[x]]

EmptyMap == [x \in {} |-> ""]

FileOf(name, subject, received_time, original_name) ==
    [name |-> name, subject |-> subject, received_time |-> received_time,
     original_name |-> original_name]

\* a file that was in the save folder before the run
OldFile(name) == FileOf(name, "", NoTime, "")

(***************************************************************************)
(* Inputs of the provider matcher                                          *)
(***************************************************************************)
MaxLines == 3

ConfigLines ==
    { "billing@acme.com = ACME",
      "acme.com = Dom",
      "  Bob@Corp.com=Corp=Inc ",
      "xbilling@acme.com = Rev",
      "monthly = Subj",
      "billing@acme.com = Dup",
      "# note = x",
      "  ",
      "no equals",
      "= NoPattern",
      "report =" }

RECURSIVE SeqsUpTo(_, _)
SeqsUpTo(S, n) ==
    IF n = 0 THEN {<<>>}
    ELSE LET shorter == SeqsUpTo(S, n - 1)
         IN  shorter \cup {Append(q, x) : q \in shorter, x \in S}

ConfigTexts == {str_join(ls, "\n") : ls \in SeqsUpTo(ConfigLines, MaxLines)}

Subjects == {"Monthly Report", "acme.com summary"}

Senders ==
    { [SenderEmailAddress |-> Ok("Billing@Acme.com"), SenderAddress |-> Missing,
       SmtpAddress |-> Missing, SenderName |-> Ok("Billing")],
      [SenderEmailAddress |-> Ok("/o=Exch/cn=bob@corp"), SenderAddress |-> Ok("Bob@Corp.com"),
       SmtpAddress |-> Missing, SenderName |-> Ok("Bob")],
      [SenderEmailAddress |-> Ok("/o=Exch/cn=eve"), SenderAddress |-> Raises,
       SmtpAddress |-> Ok("eve@other.org"), SenderName |-> Ok("Eve")],
      [SenderEmailAddress |-> Missing, SenderAddress |-> Ok("/o=Exch/cn=b@x"),
       SmtpAddress |-> Raises, SenderName |-> Ok("billing@acme.com")],
      [SenderEmailAddress |-> Ok("/o=Exch/cn=nobody"), SenderAddress |-> Missing,
       SmtpAddress |-> Raises, SenderName |-> Ok("Nobody")],
      [SenderEmailAddress |-> Missing, SenderAddress |-> Raises,
       SmtpAddress |-> Missing, SenderName |-> Missing],
      [SenderEmailAddress |-> Raises, SenderAddress |-> Missing,
       SmtpAddress |-> Missing, SenderName |-> Ok("billing@acme.com")],
      [SenderEmailAddress |-> Missing, SenderAddress |-> Missing,
       SmtpAddress |-> Missing, SenderName |-> Raises] }

(***************************************************************************)
(* Inputs of the pipeline                                                  *)
(***************************************************************************)
MaxItems == 2

Acme == [SenderEmailAddress |-> Ok("Billing@Acme.com"), SenderAddress |-> Missing,
         SmtpAddress |-> Missing, SenderName |-> Ok("Billing")]

Corp == [SenderEmailAddress |-> Ok("bob@corp.com"), SenderAddress |-> Missing,
         SmtpAddress |-> Missing, SenderName |-> Ok("Bob")]

At(day, minute) == <<"ok", DateTime(day, minute)>>

\* 2024-05-03 12:00
Now == DateTime(123, 720)

FolderNames == {"Inbox", "Archive"}

AllAccessible == [f \in FolderNames |-> "ok"]

SaveItems ==
    { MailItem("Monthly Report", Acme, At(122, 600),
               <<Attachment("inv_a.pdf", 1), Attachment("logo.png", 1)>>),
      MailItem("Monthly Report", Acme, At(122, 540),
               <<Attachment("inv_b.pdf", 1), Attachment("sum.pdf", 1)>>),
      MailItem("Monthly Report", Corp, At(121, 600),
               <<Attachment("Inv.PDF", 1)>>),
      MailItem("Daily report", NoSender, At(122, 700),
               <<Attachment("note.txt", 5), Attachment("Q1_Logo2.PDF", 1),
                 Attachment("sum.pdf", 1)>>),
      MailItem("Report pics", Acme, At(122, 900),
               <<Attachment("banner.pdf", 1), Attachment("", 1), Attachment("pic.png", 1)>>),
      MailItem("Monthly Summary", Acme, At(122, 800),
               <<Attachment("sum.pdf", 1)>>) }

RECURSIVE DistinctSeqsUpTo(_, _)
DistinctSeqsUpTo(S, n) ==
    IF n = 0 THEN {<<>>}
    ELSE LET shorter == DistinctSeqsUpTo(S, n - 1)
         IN  shorter \cup {Append(q, x) : q \in shorter, x \in S}

NoRepeat(q) == \A i, j \in 1..Len(q) : q[i] = q[j] => i = j

Mailboxes(items, n) ==
    {[f \in {"Inbox"} |-> q] : q \in {s \in DistinctSeqsUpTo(items, n) : NoRepeat(s)}}

Settings(keyword, days, naming_format, custom_suffix, extraction_mode, conversion_enabled) ==
    [keyword |-> keyword,
     folder |-> "C:\\out",
     days |-> days,
     selected_folders |-> <<"Inbox">>,
     naming_format |-> naming_format,
     custom_suffix |-> custom_suffix,
     extraction_mode |-> extraction_mode,
     conversion_enabled |-> conversion_enabled,
     convert_all_to_format |-> "csv"]

NamingChoices ==
    { <<"date", "">>, <<"year", "">>, <<"original", "">>,
      <<"custom", "">>, <<"custom", "_v">> }

SaveSettings ==
    { Settings("report", 7, n[1], n[2], mode, FALSE) :
        n \in NamingChoices, mode \in {"all", "latest"} }
    \cup { Settings("report", 7, "date", "", mode, TRUE) : mode \in {"all", "latest"} }

SaveProviderTexts ==
    { "# no rules\nnot a rule",
      "acme.com = ACME\nbob@corp.com = Corp" }

OldFileNames == {"ACME2024-05-02.pdf", "acme2024-05-02_1.pdf"}

OldDisk(names) ==
    [k \in {str_lower(n) : n \in names} |->
        OldFile(CHOOSE n \in names : str_lower(n) = k)]

Disks == {OldDisk({}), OldDisk(OldFileNames)}

(***************************************************************************)
(* Inputs of the message filter                                            *)
(***************************************************************************)
Other == [SenderEmailAddress |-> Ok("/o=Exch/cn=eve"), SenderAddress |-> Raises,
          SmtpAddress |-> Ok("eve@other.org"), SenderName |-> Ok("Eve")]

Unreadable == [SenderEmailAddress |-> Raises, SenderAddress |-> Missing,
               SmtpAddress |-> Missing, SenderName |-> Ok("billing@acme.com")]

NameUnreadable == [SenderEmailAddress |-> Ok(""), SenderAddress |-> Missing,
                   SmtpAddress |-> Missing, SenderName |-> Raises]

FilterItems ==
    { MailItem("Monthly Report", Acme, At(122, 600), <<Attachment("inv.pdf", 1)>>),
      MailItem("Monthly REPORT", Other, At(123, 10), <<>>),
      MailItem("Monthly Summary", Acme, At(122, 600), <<>>),
      MailItem("Monthly Summary", NoSender, At(122, 30), <<>>),
      MailItem("Summary", Other, At(122, 40), <<>>),
      MailItem("Old summary", Acme, At(110, 30), <<>>),
      MailItem("report early", Acme, At(116, 100), <<>>),
      MailItem("report old", Acme, At(115, 1000), <<>>),
      MailItem("report undated", Acme, <<"missing", NoTime>>, <<>>),
      MailItem("report anonymous", NoSender, At(122, 700), <<>>),
      MailItem("report unreadable", Unreadable, At(122, 710), <<>>),
      MailItem("report unnamed", NameUnreadable, At(122, 720), <<>>) }

FilterSettings ==
    { Settings(keyword, days, "date", "", "all", FALSE) :
        keyword \in {"", "report", "REPORT"}, days \in {1, 7} }

FilterProviderTexts == {"", "acme.com = ACME", "corp.com = Corp\nBilling@Acme.com = Bill"}

(***************************************************************************)
(* The provider matcher on its own: parse a text, then resolve a message   *)
(***************************************************************************)
(* The user-level scheduler (scheduler.py) and its callers in main.py      *)
(***************************************************************************)
DayNames ==
    <<"monday", "tuesday", "wednesday", "thursday", "friday", "saturday", "sunday">>

\* strftime('%A').lower(); 2024-01-01 is a Monday
weekday_name(dt) == DayNames[(dt.day % 7) + 1]

digit_value(c) == CHOOSE n \in 0..9 : Digit(n) = c

\* int(s) for a string of decimal digits
RECURSIVE int_of(_)
int_of(s) ==
    IF Len(s) = 1 THEN digit_value(s)
    ELSE int_of(SubSeq(s, 1, Len(s) - 1)) * 10 + digit_value(SubSeq(s, Len(s), Len(s)))

hours_and_minutes(parts) == int_of(parts[1]) * 60 + int_of(parts[2])

\* lines 47-51: the minute of the day of today_schedule
schedule_minute(schedule_time) == hours_and_minutes(str_split(schedule_time, ":"))

\* datetime.isoformat(), to the second
isoformat(dt) ==
    strftime_date(dt) \o "T" \o pad2(dt.minute \div 60) \o ":" \o pad2(dt.minute % 60)
        \o ":00"

RECURSIVE days_before_month(_, _)
days_before_month(y, m) ==
    IF m = 1
    THEN (IF y = 2024 THEN 0 ELSE days_before_month(y - 1, 12) + 31)
    ELSE days_before_month(y, m - 1) + DaysInMonth(y, m - 1)

\* datetime.fromisoformat()
fromisoformat(s) ==
    DateTime(days_before_month(int_of(SubSeq(s, 1, 4)), int_of(SubSeq(s, 6, 7)))
                 + int_of(SubSeq(s, 9, 10)) - 1,
             int_of(SubSeq(s, 12, 13)) * 60 + int_of(SubSeq(s, 15, 16)))

\* None, where a datetime is expected
NoLastRun == DateTime(0 - 1, 0)

\* lines 107-112 and 205-211: a state without a recorded run; "" stands for null
NoRunRecorded == [last_run |-> ""]

\* lines 75-86
get_last_run_time(state) ==
    IF state.last_run = "" THEN NoLastRun ELSE fromisoformat(state.last_run)

\* lines 60-73
check_missed_runs(last_run, current_time, schedule_days) ==
    IF last_run = NoLastRun THEN TRUE
    ELSE \E check_date \in (last_run.day + 1)..(current_time.day - 1) :
            weekday_name(DateTime(check_date, 0)) \in schedule_days

\* a check that looks for missed days before it looks at today's weekday
should_run_missed_first(cfg, last_run, current_time) ==
    IF ~cfg.automation_enabled THEN FALSE
    ELSE IF check_missed_runs(last_run, current_time, cfg.schedule_days) THEN TRUE
    ELSE /\ weekday_name(current_time) \in cfg.schedule_days
         /\ current_time.minute > schedule_minute(cfg.schedule_time)
         /\ last_run.day < current_time.day

\* a check that asks for a run after the schedule time whether or not one was
\* made today
should_run_whenever_past(cfg, last_run, current_time) ==
    IF ~cfg.automation_enabled THEN FALSE
    ELSE IF weekday_name(current_time) \notin cfg.schedule_days THEN FALSE
    ELSE IF current_time.minute > schedule_minute(cfg.schedule_time) THEN TRUE
    ELSE check_missed_runs(last_run, current_time, cfg.schedule_days)

\* lines 31-58, for the last run read at line 38
should_run(cfg, last_run, current_time) ==
    IF ~cfg.automation_enabled THEN FALSE
    ELSE IF weekday_name(current_time) \notin cfg.schedule_days THEN FALSE
    ELSE IF /\ current_time.minute > schedule_minute(cfg.schedule_time)
            /\ (last_run = NoLastRun \/ last_run.day < current_time.day)
    THEN TRUE
    ELSE check_missed_runs(last_run, current_time, cfg.schedule_days)

should_run_extraction(cfg, state, current_time) ==
    should_run(cfg, get_last_run_time(state), current_time)

\* lines 88-96: the state after save_last_run; the write of line 117 may fail,
\* which is only printed
save_last_run(state, now, written) ==
    IF written THEN [state EXCEPT !.last_run = isoformat(now)] ELSE state

Weekdays == {"monday", "tuesday", "wednesday", "thursday", "friday"}

\* the configuration of an installation that never set automation up
DefaultConfig ==
    [automation_enabled |-> FALSE, schedule_time |-> "09:00",
     schedule_days |-> Weekdays, automation_mode |-> ""]

Returned(op, due, value) == [op |-> op, due |-> due, value |-> value]

InitNoAutomation ==
    /\ config = DefaultConfig
    /\ config_file = DefaultConfig
    /\ state_file = NoRunRecorded
    /\ returned = Returned("", FALSE, FALSE)

\* no thread was started from the window
InitNoWindow ==
    /\ workers = <<>>
    /\ extract_btn = "normal"
    /\ testing = FALSE

(***************************************************************************)
MaxRules == 2

ParseProviders ==
    /\ pc = "parse"
    /\ \E r \in {parse_provider_settings(providers_text)} :
          /\ providers' = r.providers
          /\ log' = log \o r.log
    /\ pc' = "resolve"
    /\ UNCHANGED <<providers_text, message, include_result, history>>
    /\ UNCHANGED <<envVars, filterVars, saveVars>>

ShouldInclude ==
    /\ pc = "resolve"
    /\ message # NoMessage
    /\ \E r \in {should_include_message(message, providers)} :
          /\ include_result' = r
          /\ history' = Append(history, [text |-> providers_text, table |-> providers,
                                         message |-> message, result |-> r])
          /\ log' = log \o r.log
    /\ pc' = "resolved"
    /\ UNCHANGED <<providers_text, providers, message>>
    /\ UNCHANGED <<envVars, filterVars, saveVars>>

InitIdle ==
    /\ providers = <<>>
    /\ log = <<>>
    /\ include_result = NoResult
    /\ history = <<>>
    /\ messages = <<>>
    /\ checked = <<>>
    /\ folder_stats = <<>>
    /\ writes = <<>>
    /\ saved_files = EmptyMap
    /\ latest_files = EmptyMap
    /\ mi = 0
    /\ ai = 0
    /\ outlook_message = NoMessage

InitNoPipeline ==
    /\ settings = Settings("", 7, "date", "", "all", FALSE)
    /\ mailbox = [f \in {"Inbox"} |-> <<>>]
    /\ today = Now
    /\ folder_access = AllAccessible
    /\ InitNoAutomation
    /\ InitNoWindow
    /\ disk = EmptyMap

\* parsing alone, over every text of up to MaxLines lines
InitParse ==
    /\ pc = "parse"
    /\ providers_text \in ConfigTexts
    /\ message = NoMessage
    /\ InitIdle
    /\ InitNoPipeline

NextParse == ParseProviders

SpecParse == InitParse /\ [][NextParse]_vars

\* parsing, then resolving one message against the table
InitResolve ==
    /\ pc = "parse"
    /\ providers_text \in {str_join(ls, "\n") : ls \in SeqsUpTo(ConfigLines, MaxRules)}
    /\ message \in {MailItem(s, f, At(0, 0), <<>>) : s \in Subjects, f \in Senders}
    /\ InitIdle
    /\ InitNoPipeline

NextResolve == ParseProviders \/ ShouldInclude

SpecResolve == InitResolve /\ [][NextResolve]_vars

(***************************************************************************)
(* A session: the configuration text is edited between runs and further    *)
(* messages are resolved, every run parsing the text anew (line 354)       *)
(***************************************************************************)
MaxResolves == 2

SessionLines ==
    { "acme.com = Dom",
      "corp.com = Corp",
      "xbilling@acme.com = Rev",
      "billing@acme.com = Dup" }

SessionMessages ==
    {MailItem("Monthly Report", f, At(0, 0), <<>>) : f \in {Acme, Corp, Other, NoSender}}

lines_of(text) == IF text = "" THEN <<>> ELSE str_split(text, "\n")

without_line(ls, i) == SubSeq(ls, 1, i - 1) \o SubSeq(ls, i + 1, Len(ls))

swapped(ls, i) ==
    [j \in 1..Len(ls) |-> IF j = i THEN ls[i + 1] ELSE IF j = i + 1 THEN ls[i] ELSE ls[j]]

\* the texts one edit away: a line added in front or at the end, a line
\* removed, two neighbours exchanged
edits_of(ls) ==
    {<<l>> \o ls : l \in IF Len(ls) < MaxRules THEN SessionLines ELSE {}}
        \cup {Append(ls, l) : l \in IF Len(ls) < MaxRules THEN SessionLines ELSE {}}
        \cup {without_line(ls, i) : i \in 1..Len(ls)}
        \cup {swapped(ls, i) : i \in 1..(Len(ls) - 1)}

\* the user rewrites the provider configuration; the next run parses it
EditProviders ==
    /\ pc = "resolved"
    /\ Len(history) < MaxResolves
    /\ \E ls \in edits_of(lines_of(providers_text)) :
          providers_text' = str_join(ls, "\n")
    /\ pc' = "parse"
    /\ UNCHANGED <<providers, message, include_result, history, log>>
    /\ UNCHANGED <<envVars, filterVars, saveVars>>

\* the loop of line 392 comes to another message, or to the same one again
NextMessage ==
    /\ pc = "resolved"
    /\ Len(history) < MaxResolves
    /\ message' \in SessionMessages
    /\ pc' = "resolve"
    /\ UNCHANGED <<providers_text, providers, include_result, history, log>>
    /\ UNCHANGED <<envVars, filterVars, saveVars>>

InitSession ==
    /\ pc = "parse"
    /\ providers_text \in {str_join(ls, "\n") : ls \in SeqsUpTo(SessionLines, MaxRules)}
    /\ message \in SessionMessages
    /\ InitIdle
    /\ InitNoPipeline

NextSession == ParseProviders \/ ShouldInclude \/ EditProviders \/ NextMessage

SpecSession == InitSession /\ [][NextSession]_vars

(***************************************************************************)
(* The pipeline of MainTab.run_extraction: get_messages_from_folders, then *)
(* save_attachments on what it returned                                    *)
(***************************************************************************)
\* get_messages_from_folders; the connection test of lines 343-351 may fail
GetMessages ==
    /\ pc = "start"
    /\ \E connected \in BOOLEAN :
          IF connected
          THEN \E r \in {get_messages_from_folders(settings.selected_folders, mailbox,
                            folder_access, today, settings.days, settings.keyword,
                            providers_text)} :
                   /\ providers' = r.providers
                   /\ messages' = r.messages
                   /\ checked' = r.checked
                   /\ folder_stats' = r.stats
                   /\ log' = log \o r.log
          ELSE /\ log' = log \o <<Ev("ERROR", "connect_failed", 0),
                                  Ev("ERROR", "retrieve_error", 0)>>
               /\ messages' = <<>>
               /\ UNCHANGED <<providers, checked, folder_stats>>
    /\ pc' = "got"
    /\ UNCHANGED <<providers_text, message, include_result, history, envVars, saveVars>>

\* run_extraction, `if not messages`: the run ends with a warning
NoMatchingMessages ==
    /\ pc = "got"
    /\ messages = <<>>
    /\ log' = Append(log, Ev("WARNING", "no_matching_messages", 0))
    /\ pc' = "done"
    /\ UNCHANGED <<providerVars, envVars, filterVars, saveVars>>

\* save_attachments, lines 505-526; run_extraction calls it only with messages
SaveBegin ==
    /\ pc = "got"
    /\ messages # <<>>
    /\ settings.folder # ""
    /\ \E ready \in BOOLEAN :
          IF ready
          THEN /\ messages' = IF settings.extraction_mode = "latest"
                              THEN sort_messages(messages) ELSE messages
               /\ mi' = 1
               /\ pc' = "message"
               /\ UNCHANGED log
          ELSE /\ log' = Append(log, Ev("ERROR", "save_attachments_error", 0))
               /\ pc' = "done"
               /\ UNCHANGED <<messages, mi>>
    /\ UNCHANGED <<providerVars, envVars, checked, folder_stats>>
    /\ UNCHANGED <<disk, writes, saved_files, latest_files, ai, outlook_message>>

\* the next message without the test of line 530
SaveMessageWithoutSkip ==
    /\ pc = "message"
    /\ mi <= Len(messages)
    /\ \E found \in {find_outlook_message(mailbox[messages[mi].folder_name],
                                          messages[mi])} :
          IF found = 0
          THEN /\ mi' = mi + 1
               /\ log' = Append(log, Ev("WARNING", "message_not_found", mi))
               /\ UNCHANGED <<pc, ai, outlook_message>>
          ELSE /\ outlook_message' = mailbox[messages[mi].folder_name][found]
               /\ ai' = 1
               /\ pc' = "attachment"
               /\ UNCHANGED <<mi, log>>
    /\ UNCHANGED <<providerVars, envVars, filterVars>>
    /\ UNCHANGED <<disk, writes, saved_files, latest_files>>

\* lines 528-568: the next message, and the Outlook item found for it
SaveMessage ==
    /\ pc = "message"
    /\ mi <= Len(messages)
    /\ \E found \in {find_outlook_message(mailbox[messages[mi].folder_name],
                                          messages[mi])} :
          IF messages[mi].attachments = <<>>
          THEN /\ mi' = mi + 1
               /\ UNCHANGED <<pc, log, ai, outlook_message>>
          ELSE IF found = 0
          THEN /\ mi' = mi + 1
               /\ log' = Append(log, Ev("WARNING", "message_not_found", mi))
               /\ UNCHANGED <<pc, ai, outlook_message>>
          ELSE /\ outlook_message' = mailbox[messages[mi].folder_name][found]
               /\ ai' = 1
               /\ pc' = "attachment"
               /\ UNCHANGED <<mi, log>>
    /\ UNCHANGED <<providerVars, envVars, filterVars>>
    /\ UNCHANGED <<disk, writes, saved_files, latest_files>>

\* one attachment of the item, by a saver that ends the run at the first
\* attachment it did not save
SaveAttachmentGivesUp ==
    /\ pc = "attachment"
    /\ \E attachment \in {outlook_message.Attachments[ai]} :
       \E key \in {file_key(attachment.FileName)} :
       \E final_filename \in
              {final_name(disk, settings.extraction_mode, settings.naming_format,
                          provider_prefix(messages[mi]),
                          naming_suffix(settings.naming_format, settings.custom_suffix,
                                        messages[mi].received_time),
                          settings.custom_suffix, attachment.FileName)} :
          IF ~is_document(attachment)
          THEN /\ log' = IF attachment.Type = olByValue /\ attachment.FileName # ""
                         THEN Append(log, Ev("INFO", "skipped", ai)) ELSE log
               /\ UNCHANGED <<disk, writes, saved_files, latest_files>>
          ELSE IF settings.extraction_mode = "latest" /\ key \in DOMAIN latest_files
          THEN /\ log' = Append(log, Ev("INFO", "skipped_older", ai))
               /\ UNCHANGED <<disk, writes, saved_files, latest_files>>
          ELSE /\ latest_files' = IF settings.extraction_mode = "latest"
                                  THEN map_set(latest_files, key,
                                               messages[mi].received_time)
                                  ELSE latest_files
               /\ \E saved \in BOOLEAN :
                     IF saved
                     THEN /\ disk' = map_set(disk, str_lower(final_filename),
                                         FileOf(final_filename, outlook_message.Subject,
                                                outlook_message.ReceivedTime[2],
                                                attachment.FileName))
                          /\ writes' = Append(writes,
                                         [name |-> final_filename,
                                          existed |-> path_exists(disk, final_filename),
                                          key |-> key, mi |-> mi, ai |-> ai,
                                          source |-> outlook_message])
                          /\ saved_files' = map_set(saved_files, final_filename,
                                                path_join(settings.folder, final_filename))
                          /\ log' = log
                               \o (IF settings.conversion_enabled
                                      /\ settings.convert_all_to_format # ""
                                   THEN <<Ev("WARNING", "conversion_failed", ai)>>
                                   ELSE <<>>)
                               \o <<Ev("SUCCESS", "saved", ai)>>
                     ELSE /\ log' = Append(log, Ev("ERROR", "save_failed", ai))
                          /\ UNCHANGED <<disk, writes, saved_files>>
    /\ IF writes' = writes
       THEN /\ pc' = "done"
            /\ UNCHANGED <<mi, ai>>
       ELSE IF ai < Len(outlook_message.Attachments)
       THEN /\ ai' = ai + 1
            /\ UNCHANGED <<pc, mi>>
       ELSE /\ mi' = mi + 1
            /\ pc' = "message"
            /\ UNCHANGED ai
    /\ UNCHANGED <<providerVars, envVars, filterVars, outlook_message>>

\* one attachment of the item, by a saver whose failed conversion is handled
\* as a failed save: an ERROR, and no entry in saved_files
SaveAttachmentConversionFatal ==
    /\ pc = "attachment"
    /\ \E attachment \in {outlook_message.Attachments[ai]} :
       \E key \in {file_key(attachment.FileName)} :
       \E final_filename \in
              {final_name(disk, settings.extraction_mode, settings.naming_format,
                          provider_prefix(messages[mi]),
                          naming_suffix(settings.naming_format, settings.custom_suffix,
                                        messages[mi].received_time),
                          settings.custom_suffix, attachment.FileName)} :
          IF ~is_document(attachment)
          THEN /\ log' = IF attachment.Type = olByValue /\ attachment.FileName # ""
                         THEN Append(log, Ev("INFO", "skipped", ai)) ELSE log
               /\ UNCHANGED <<disk, writes, saved_files, latest_files>>
          ELSE IF settings.extraction_mode = "latest" /\ key \in DOMAIN latest_files
          THEN /\ log' = Append(log, Ev("INFO", "skipped_older", ai))
               /\ UNCHANGED <<disk, writes, saved_files, latest_files>>
          ELSE /\ latest_files' = IF settings.extraction_mode = "latest"
                                  THEN map_set(latest_files, key,
                                               messages[mi].received_time)
                                  ELSE latest_files
               /\ \E saved \in BOOLEAN :
                     IF saved
                     THEN /\ disk' = map_set(disk, str_lower(final_filename),
                                         FileOf(final_filename, outlook_message.Subject,
                                                outlook_message.ReceivedTime[2],
                                                attachment.FileName))
                          /\ writes' = Append(writes,
                                         [name |-> final_filename,
                                          existed |-> path_exists(disk, final_filename),
                                          key |-> key, mi |-> mi, ai |-> ai,
                                          source |-> outlook_message])
                          /\ saved_files' =
                                 IF settings.conversion_enabled
                                    /\ settings.convert_all_to_format # ""
                                 THEN saved_files
                                 ELSE map_set(saved_files, final_filename,
                                              path_join(settings.folder, final_filename))
                          /\ log' = log
                               \o (IF settings.conversion_enabled
                                      /\ settings.convert_all_to_format # ""
                                   THEN <<Ev("ERROR", "conversion_failed", ai)>>
                                   ELSE <<>>)
                               \o <<Ev("SUCCESS", "saved", ai)>>
                     ELSE /\ log' = Append(log, Ev("ERROR", "save_failed", ai))
                          /\ UNCHANGED <<disk, writes, saved_files>>
    /\ IF ai < Len(outlook_message.Attachments)
       THEN /\ ai' = ai + 1
            /\ UNCHANGED <<pc, mi>>
       ELSE /\ mi' = mi + 1
            /\ pc' = "message"
            /\ UNCHANGED ai
    /\ UNCHANGED <<providerVars, envVars, filterVars, outlook_message>>

\* one attachment of the item, by a saver that claims the key of an attachment
\* only once its file is saved
SaveAttachmentClaimsAfterSave ==
    /\ pc = "attachment"
    /\ \E attachment \in {outlook_message.Attachments[ai]} :
       \E key \in {file_key(attachment.FileName)} :
       \E final_filename \in
              {final_name(disk, settings.extraction_mode, settings.naming_format,
                          provider_prefix(messages[mi]),
                          naming_suffix(settings.naming_format, settings.custom_suffix,
                                        messages[mi].received_time),
                          settings.custom_suffix, attachment.FileName)} :
          IF ~is_document(attachment)
          THEN /\ log' = IF attachment.Type = olByValue /\ attachment.FileName # ""
                         THEN Append(log, Ev("INFO", "skipped", ai)) ELSE log
               /\ UNCHANGED <<disk, writes, saved_files, latest_files>>
          ELSE IF settings.extraction_mode = "latest" /\ key \in DOMAIN latest_files
          THEN /\ log' = Append(log, Ev("INFO", "skipped_older", ai))
               /\ UNCHANGED <<disk, writes, saved_files, latest_files>>
          ELSE /\ \E saved \in BOOLEAN :
                     IF saved
                     THEN /\ latest_files' = IF settings.extraction_mode = "latest"
                                             THEN map_set(latest_files, key,
                                                          messages[mi].received_time)
                                             ELSE latest_files
                          /\ disk' = map_set(disk, str_lower(final_filename),
                                         FileOf(final_filename, outlook_message.Subject,
                                                outlook_message.ReceivedTime[2],
                                                attachment.FileName))
                          /\ writes' = Append(writes,
                                         [name |-> final_filename,
                                          existed |-> path_exists(disk, final_filename),
                                          key |-> key, mi |-> mi, ai |-> ai,
                                          source |-> outlook_message])
                          /\ saved_files' = map_set(saved_files, final_filename,
                                                path_join(settings.folder, final_filename))
                          /\ log' = log
                               \o (IF settings.conversion_enabled
                                      /\ settings.convert_all_to_format # ""
                                   THEN <<Ev("WARNING", "conversion_failed", ai)>>
                                   ELSE <<>>)
                               \o <<Ev("SUCCESS", "saved", ai)>>
                     ELSE /\ log' = Append(log, Ev("ERROR", "save_failed", ai))
                          /\ UNCHANGED <<disk, writes, saved_files, latest_files>>
    /\ IF ai < Len(outlook_message.Attachments)
       THEN /\ ai' = ai + 1
            /\ UNCHANGED <<pc, mi>>
       ELSE /\ mi' = mi + 1
            /\ pc' = "message"
            /\ UNCHANGED ai
    /\ UNCHANGED <<providerVars, envVars, filterVars, outlook_message>>

\* lines 571-677: one attachment of the item; SaveAsFile may fail
SaveAttachment ==
    /\ pc = "attachment"
    /\ \E attachment \in {outlook_message.Attachments[ai]} :
       \E key \in {file_key(attachment.FileName)} :
       \E final_filename \in
              {final_name(disk, settings.extraction_mode, settings.naming_format,
                          provider_prefix(messages[mi]),
                          naming_suffix(settings.naming_format, settings.custom_suffix,
                                        messages[mi].received_time),
                          settings.custom_suffix, attachment.FileName)} :
          IF ~is_document(attachment)
          THEN /\ log' = IF attachment.Type = olByValue /\ attachment.FileName # ""
                         THEN Append(log, Ev("INFO", "skipped", ai)) ELSE log
               /\ UNCHANGED <<disk, writes, saved_files, latest_files>>
          ELSE IF settings.extraction_mode = "latest" /\ key \in DOMAIN latest_files
          THEN /\ log' = Append(log, Ev("INFO", "skipped_older", ai))
               /\ UNCHANGED <<disk, writes, saved_files, latest_files>>
          ELSE /\ latest_files' = IF settings.extraction_mode = "latest"
                                  THEN map_set(latest_files, key,
                                               messages[mi].received_time)
                                  ELSE latest_files
               /\ \E saved \in BOOLEAN :
                     IF saved
                     THEN /\ disk' = map_set(disk, str_lower(final_filename),
                                         FileOf(final_filename, outlook_message.Subject,
                                                outlook_message.ReceivedTime[2],
                                                attachment.FileName))
                          /\ writes' = Append(writes,
                                         [name |-> final_filename,
                                          existed |-> path_exists(disk, final_filename),
                                          key |-> key, mi |-> mi, ai |-> ai,
                                          source |-> outlook_message])
                          /\ saved_files' = map_set(saved_files, final_filename,
                                                path_join(settings.folder, final_filename))
                          /\ log' = log
                               \o (IF settings.conversion_enabled
                                      /\ settings.convert_all_to_format # ""
                                   THEN <<Ev("WARNING", "conversion_failed", ai)>>
                                   ELSE <<>>)
                               \o <<Ev("SUCCESS", "saved", ai)>>
                     ELSE /\ log' = Append(log, Ev("ERROR", "save_failed", ai))
                          /\ UNCHANGED <<disk, writes, saved_files>>
    /\ IF ai < Len(outlook_message.Attachments)
       THEN /\ ai' = ai + 1
            /\ UNCHANGED <<pc, mi>>
       ELSE /\ mi' = mi + 1
            /\ pc' = "message"
            /\ UNCHANGED ai
    /\ UNCHANGED <<providerVars, envVars, filterVars, outlook_message>>

\* line 683
SaveReturn ==
    /\ pc = "message"
    /\ mi > Len(messages)
    /\ pc' = "done"
    /\ UNCHANGED <<log, providerVars, envVars, filterVars, saveVars>>

Init ==
    /\ pc = "start"
    /\ providers_text \in SaveProviderTexts
    /\ message = NoMessage
    /\ InitIdle
    /\ settings \in SaveSettings
    /\ mailbox \in Mailboxes(SaveItems, MaxItems)
    /\ today = Now
    /\ folder_access = AllAccessible
    /\ InitNoAutomation
    /\ InitNoWindow
    /\ disk \in Disks

Next ==
    \/ GetMessages
    \/ NoMatchingMessages
    \/ SaveBegin
    \/ SaveMessage
    \/ SaveAttachment
    \/ SaveReturn

Spec == Init /\ [][Next]_vars

(***************************************************************************)
(* The pipeline with a single provider rule, over messages that carry one  *)
(* document and one decorative image                                       *)
(***************************************************************************)
Billing == [SenderEmailAddress |-> Ok("billing@acme.com"), SenderAddress |-> Missing,
            SmtpAddress |-> Missing, SenderName |-> Ok("Billing")]

ScenarioItems ==
    { MailItem("Monthly Report", Billing, At(121, 480),
               <<Attachment("report.pdf", 1), Attachment("image001.png", 1)>>),
      MailItem("Monthly Report", Corp, At(121, 600),
               <<Attachment("Signature.GIF", 1), Attachment("Inv.PDF", 1)>>),
      MailItem("Monthly Report", Acme, At(110, 600),
               <<Attachment("old.pdf", 1), Attachment("banner.png", 1)>>),
      MailItem("Monthly Summary", Acme, At(122, 800),
               <<Attachment("sum.pdf", 1), Attachment("logo.png", 1)>>) }

ScenarioProviderTexts == {"acme.com = ACME", "corp.com = Corp"}

InitScenario ==
    /\ pc = "start"
    /\ providers_text \in ScenarioProviderTexts
    /\ message = NoMessage
    /\ InitIdle
    /\ settings \in SaveSettings
    /\ mailbox \in Mailboxes(ScenarioItems, MaxItems)
    /\ today = Now
    /\ folder_access = AllAccessible
    /\ InitNoAutomation
    /\ InitNoWindow
    /\ disk \in Disks

SpecScenario == InitScenario /\ [][Next]_vars

(***************************************************************************)
(* The message filter on its own: get_messages_from_folders over mailboxes *)
(* with every kind of message                                              *)
(***************************************************************************)
InitFilter ==
    /\ pc = "start"
    /\ providers_text \in FilterProviderTexts
    /\ message = NoMessage
    /\ InitIdle
    /\ settings \in FilterSettings
    /\ mailbox \in Mailboxes(FilterItems, MaxItems)
    /\ today = Now
    /\ folder_access = AllAccessible
    /\ InitNoAutomation
    /\ InitNoWindow
    /\ disk = EmptyMap

NextFilter == GetMessages

SpecFilter == InitFilter /\ [][NextFilter]_vars

(***************************************************************************)
(* The order of the returned list: get_messages_from_folders over two      *)
(* folders, given in either order, with messages received at the same time *)
(***************************************************************************)
MaxOrderItems == 3

OrderItems ==
    { MailItem("Report one", Acme, At(122, 600), <<Attachment("one.pdf", 1)>>),
      MailItem("Report two", Corp, At(122, 600), <<Attachment("two.pdf", 1)>>),
      MailItem("Report three", Acme, At(122, 700), <<>>),
      MailItem("Summary", Other, At(122, 600), <<>>),
      MailItem("Report five", Acme, At(121, 600), <<>>) }

\* the items of q up to position k in the first folder, the others in the second
FolderBoxes(items, n) ==
    UNION {{[f \in {"Inbox", "Archive"} |->
                IF f = "Inbox" THEN SubSeq(q, 1, k) ELSE SubSeq(q, k + 1, Len(q))] :
              k \in 0..Len(q)} :
           q \in {s \in DistinctSeqsUpTo(items, n) : NoRepeat(s)}}

OrderSettings ==
    { [Settings(keyword, 7, "date", "", "all", FALSE) EXCEPT !.selected_folders = names] :
        keyword \in {"", "report"},
        names \in {<<"Inbox", "Archive">>, <<"Archive", "Inbox">>} }

InitOrder ==
    /\ pc = "start"
    /\ providers_text = ""
    /\ message = NoMessage
    /\ InitIdle
    /\ settings \in OrderSettings
    /\ mailbox \in FolderBoxes(OrderItems, MaxOrderItems)
    /\ today = Now
    /\ folder_access = AllAccessible
    /\ InitNoAutomation
    /\ InitNoWindow
    /\ disk = EmptyMap

NextOrder == GetMessages

SpecOrder == InitOrder /\ [][NextOrder]_vars

(***************************************************************************)
(* Retrieval over two folders of which either may be unreadable, with a    *)
(* message whose record cannot be built                                    *)
(***************************************************************************)
FolderItems ==
    { MailItem("Report one", Acme, At(122, 600), <<Attachment("one.pdf", 1)>>),
      MailItem("Report two", Corp, At(122, 600), <<>>),
      MailItem("Report unreadable", Unreadable, At(122, 650), <<>>),
      MailItem("Summary", Other, At(122, 600), <<>>) }

\* GetDefaultFolder returns the Inbox or raises; a folder looked up by its
\* path may also not be found
FolderAccesses ==
    {[f \in FolderNames |-> IF f = "Inbox" THEN i ELSE a] :
        i \in {"ok", "raises"}, a \in {"ok", "missing", "raises"}}

InitFolders ==
    /\ pc = "start"
    /\ providers_text = ""
    /\ message = NoMessage
    /\ InitIdle
    /\ settings \in OrderSettings
    /\ mailbox \in FolderBoxes(FolderItems, MaxItems)
    /\ today = Now
    /\ folder_access \in FolderAccesses
    /\ InitNoAutomation
    /\ InitNoWindow
    /\ disk = EmptyMap

SpecFolders == InitFolders /\ [][GetMessages]_vars

(***************************************************************************)
(* The configuration text read line by line, as section 4.1 describes it   *)
(***************************************************************************)
IgnoredLine == [kind |-> "ignored", pattern |-> "", label |-> ""]

InvalidLine == [kind |-> "invalid", pattern |-> "", label |-> ""]

SidesOf(pattern, label) ==
    IF pattern # "" /\ label # ""
    THEN [kind |-> "valid", pattern |-> pattern, label |-> label]
    ELSE InvalidLine

FirstEq(line) == IF str_in("=", line) THEN str_find(line, "=") ELSE 0

LineAt(line, eq) ==
    IF line = "" \/ startswith(line, "#") THEN IgnoredLine
    ELSE IF eq = 0 THEN InvalidLine
    ELSE SidesOf(str_lower(str_strip(SubSeq(line, 1, eq - 1))),
                 str_strip(str_tail(line, eq + 1)))

LineInfo(raw) == LineAt(str_strip(raw), FirstEq(str_strip(raw)))

InfoOf(raw) == [n \in 1..Len(raw) |-> LineInfo(raw[n])]

TextLines == InfoOf(str_split(providers_text, "\n"))

LinesOfKind(lines, kind) == {n \in 1..Len(lines) : lines[n].kind = kind}

LineWarnings ==
    {i \in 1..Len(log) : /\ log[i].level = "WARNING"
                         /\ log[i].event \in {"invalid_line", "missing_equals"}}

SenderOf(m) == sender_lookup(m).sender_email

HasSender(m) == ~sender_lookup(m).raised /\ SenderOf(m) # ""

Connected == \E i \in 1..Len(log) : log[i].event = "connected"

Min(S) == CHOOSE x \in S : \A y \in S : x <= y

(***************************************************************************)
(* What the run saved and what it was given to save                        *)
(***************************************************************************)
Saves == 1..Len(writes)

\* the classified attachments of the accepted messages, as <<message, position>>
Carried ==
    UNION {{<<m, a>> : a \in 1..Len(messages[m].attachments)} : m \in 1..Len(messages)}

CarriedKey(p) == file_key(messages[p[1]].attachments[p[2]])

\* the accepted messages that carry an attachment with the key
Carriers(key) == {p[1] : p \in {q \in Carried : CarriedKey(q) = key}}

NoSaveFailed ==
    \A i \in 1..Len(log) : log[i].event \notin {"save_failed", "save_attachments_error"}

(***************************************************************************)
(* The automation handlers, next to an extraction started from the window  *)
(***************************************************************************)
MaxDays == 3

\* 2024-05-03, a Friday
FirstDay == 123

ClockDays == FirstDay..(FirstDay + MaxDays - 1)

\* before and after the schedule time of 09:00
ClockMinutes == {480, 600}

ScheduleDaySets == {Weekdays, {"saturday", "sunday"}}

\* the clock moves on
Tick ==
    /\ \E d \in ClockDays, m \in ClockMinutes :
          /\ time_key(DateTime(d, m)) > time_key(today)
          /\ today' = DateTime(d, m)
    /\ UNCHANGED <<pc, log, providerVars, settings, mailbox, folder_access,
                   automationVars, filterVars, saveVars, windowVars>>

\* ConfigManager.save_config: the file after the write, which may fail
saved_config(cfg, file, written) == IF written THEN cfg ELSE file

\* scheduler.py 127-132
setup_settings(cfg, schedule_time, schedule_days) ==
    [cfg EXCEPT !.automation_enabled = TRUE,
                !.schedule_time = schedule_time,
                !.schedule_days = schedule_days]

\* scheduler.py 138-144
after_task_scheduler(cfg, task) ==
    IF task = "raises" THEN [cfg EXCEPT !.automation_mode = "startup_only"] ELSE cfg

\* a setup that withdraws its settings when the startup checker cannot be made
OneClickSetupRollsBack ==
    /\ \E schedule_days \in ScheduleDaySets, startup \in {"ok", "raises"},
          task \in {"ok", "raises"} :
       \E written \in {w \in [1..3 -> BOOLEAN] :
                          /\ startup = "raises" => ~w[2] /\ ~w[3]
                          /\ task = "ok" => ~w[2]} :
          IF startup = "raises"
          THEN /\ returned' = Returned("one_click_setup", FALSE, FALSE)
               /\ UNCHANGED <<config, config_file, state_file>>
          ELSE /\ config' = after_task_scheduler(
                                setup_settings(config, "09:00", schedule_days), task)
               /\ config_file' =
                      saved_config(config',
                          saved_config(setup_settings(config, "09:00", schedule_days),
                                       config_file, written[1]),
                          task = "raises" /\ written[2])
               /\ state_file' = IF written[3] THEN NoRunRecorded ELSE state_file
               /\ returned' = Returned("one_click_setup", FALSE, TRUE)
    /\ UNCHANGED <<pc, log, providerVars, settings, mailbox, today, folder_access,
                   filterVars, saveVars, windowVars>>

\* scheduler.py 122-153, from the settings tab; creating the startup checker
\* (155-172) and the scheduled task (174-201) may raise, each write may fail
OneClickSetup ==
    /\ \E schedule_days \in ScheduleDaySets, startup \in {"ok", "raises"},
          task \in {"ok", "raises"} :
       \E written \in {w \in [1..3 -> BOOLEAN] :
                          /\ startup = "raises" => ~w[2] /\ ~w[3]
                          /\ task = "ok" => ~w[2]} :
          IF startup = "raises"
          THEN /\ config' = setup_settings(config, "09:00", schedule_days)
               /\ config_file' = saved_config(config', config_file, written[1])
               /\ returned' = Returned("one_click_setup", FALSE, FALSE)
               /\ UNCHANGED state_file
          ELSE /\ config' = after_task_scheduler(
                                setup_settings(config, "09:00", schedule_days), task)
               /\ config_file' =
                      saved_config(config',
                          saved_config(setup_settings(config, "09:00", schedule_days),
                                       config_file, written[1]),
                          task = "raises" /\ written[2])
               /\ state_file' = IF written[3] THEN NoRunRecorded ELSE state_file
               /\ returned' = Returned("one_click_setup", FALSE, TRUE)
    /\ UNCHANGED <<pc, log, providerVars, settings, mailbox, today, folder_access,
                   filterVars, saveVars, windowVars>>

\* scheduler.py 214-236, from the settings tab; removing the startup file may
\* raise
DisableAutomation ==
    /\ \E removed \in {"ok", "raises"}, written \in BOOLEAN :
          IF removed = "raises"
          THEN /\ returned' = Returned("disable_automation", FALSE, FALSE)
               /\ UNCHANGED <<config, config_file>>
          ELSE /\ config' = [config EXCEPT !.automation_enabled = FALSE]
               /\ config_file' = saved_config(config', config_file, written)
               /\ returned' = Returned("disable_automation", FALSE, TRUE)
    /\ UNCHANGED <<pc, log, providerVars, settings, mailbox, today, folder_access,
                   state_file, filterVars, saveVars, windowVars>>

\* main.py 22-63: the state file after the run, and what the run returns
run_automated_extraction(state, now, connected, written) ==
    IF ~connected
    THEN [state |-> state, value |-> FALSE]
    ELSE [state |-> save_last_run(state, now, written), value |-> TRUE]

\* main.py 116-132: a process started with --check-schedule reads the
\* configuration file; when a run is due it runs silently or asks first
CheckSchedule ==
    /\ \E accepted, connected, written \in BOOLEAN :
       \E due \in {should_run_extraction(config_file, state_file, today)} :
       \E run \in {run_automated_extraction(state_file, today, connected, written)} :
          IF due /\ accepted
          THEN /\ state_file' = run.state
               /\ returned' = Returned("check_schedule_run", due, run.value)
          ELSE /\ returned' = Returned("check_schedule", due, FALSE)
               /\ UNCHANGED state_file
    /\ UNCHANGED <<pc, log, providerVars, settings, mailbox, today, folder_access,
                   config, config_file, filterVars, saveVars, windowVars>>

\* main.py 135-138: --run-now
RunNow ==
    /\ \E connected, written \in BOOLEAN :
       \E run \in {run_automated_extraction(state_file, today, connected, written)} :
          /\ state_file' = run.state
          /\ returned' = Returned("run_now", FALSE, run.value)
    /\ UNCHANGED <<pc, log, providerVars, settings, mailbox, today, folder_access,
                   config, config_file, filterVars, saveVars, windowVars>>

\* settings_tab.py 474-491: the check made by the window, on its own
\* configuration; the extraction it offers is run_extraction
CheckOnStartup ==
    /\ returned' = Returned("check_on_startup",
                            should_run_extraction(config, state_file, today), FALSE)
    /\ UNCHANGED <<pc, log, providerVars, settings, mailbox, today, folder_access,
                   config, config_file, state_file, filterVars, saveVars, windowVars>>

\* an installation whose automation was never set up, or was set up and ran
\* the day before
InitAutomation ==
    /\ pc = "start"
    /\ providers_text = ""
    /\ message = NoMessage
    /\ InitIdle
    /\ settings = Settings("", 7, "date", "", "all", FALSE)
    /\ mailbox = [f \in {"Inbox"} |-> <<>>]
    /\ today = DateTime(FirstDay, 480)
    /\ folder_access = AllAccessible
    /\ disk = EmptyMap
    /\ config \in {DefaultConfig, setup_settings(DefaultConfig, "09:00", Weekdays)}
    /\ config_file = config
    /\ state_file \in {NoRunRecorded,
                       save_last_run(NoRunRecorded, DateTime(FirstDay - 1, 600), TRUE)}
    /\ returned = Returned("", FALSE, FALSE)
    /\ InitNoWindow

NextAutomation ==
    \/ Tick
    \/ OneClickSetup
    \/ DisableAutomation
    \/ CheckSchedule
    \/ RunNow
    \/ CheckOnStartup

SpecAutomation == InitAutomation /\ [][NextAutomation]_vars

(***************************************************************************)
(* Automated runs next to an extraction started from the window, with      *)
(* automation set up for every day                                         *)
(***************************************************************************)
RunItems ==
    { MailItem("Monthly Report", Acme, At(FirstDay - 1, 600),
               <<Attachment("inv_a.pdf", 1)>>) }

EveryDay == {DayNames[i] : i \in 1..7}

InitRuns ==
    /\ pc = "start"
    /\ providers_text = ""
    /\ message = NoMessage
    /\ InitIdle
    /\ settings = Settings("report", 7, "date", "", "all", FALSE)
    /\ mailbox \in Mailboxes(RunItems, 1)
    /\ today = DateTime(FirstDay, 480)
    /\ folder_access = AllAccessible
    /\ disk = EmptyMap
    /\ config = setup_settings(DefaultConfig, "09:00", EveryDay)
    /\ config_file = config
    /\ state_file = NoRunRecorded
    /\ returned = Returned("", FALSE, FALSE)
    /\ InitNoWindow

NextRuns ==
    \/ Tick
    \/ CheckSchedule
    \/ RunNow
    \/ CheckOnStartup
    \/ GetMessages
    \/ NoMatchingMessages
    \/ SaveBegin
    \/ SaveMessage
    \/ SaveAttachment
    \/ SaveReturn

SpecRuns == InitRuns /\ [][NextRuns]_vars

(***************************************************************************)
(* should_run_extraction alone, over configurations, recorded runs and     *)
(* times of the check                                                      *)
(***************************************************************************)
CheckDaySets == ScheduleDaySets \cup {{"friday", "sunday"}}

CheckConfigs ==
    {[DefaultConfig EXCEPT !.automation_enabled = e, !.schedule_days = days] :
        e \in BOOLEAN, days \in CheckDaySets}

\* no run on record, or one made at 10:00 between three days before the first
\* day of the clock and its last day
CheckStates ==
    {NoRunRecorded}
        \cup {save_last_run(NoRunRecorded, DateTime(d, 600), TRUE) :
                d \in (FirstDay - 3)..(FirstDay + MaxDays - 1)}

InitShouldRun ==
    /\ pc = "start"
    /\ providers_text = ""
    /\ message = NoMessage
    /\ InitIdle
    /\ settings = Settings("", 7, "date", "", "all", FALSE)
    /\ mailbox = [f \in {"Inbox"} |-> <<>>]
    /\ today \in {DateTime(d, m) : d \in ClockDays, m \in ClockMinutes \cup {540}}
    /\ folder_access = AllAccessible
    /\ disk = EmptyMap
    /\ config \in CheckConfigs
    /\ config_file = config
    /\ state_file \in CheckStates
    /\ returned = Returned("", FALSE, FALSE)
    /\ InitNoWindow

SpecShouldRun == InitShouldRun /\ [][CheckOnStartup]_vars

(***************************************************************************)
(* The window: run_extraction and test_connection start threads            *)
(* (main_tab.py 160-263); every extraction thread runs                     *)
(* get_messages_from_folders and save_attachments on the same save folder  *)
(***************************************************************************)
MaxWorkers == 2

\* who calls run_extraction: the extract button (main_tab.py 100-101), the
\* auto-run timer (main_window.py 107-108), save_and_run (settings_tab.py 762)
\* and the extraction-ready notification (settings_tab.py 490-491)
Invokers == {"button", "timer", "save_and_run", "notification"}

Worker(at, found, m, a, name, seen, result) ==
    [pc |-> at, messages |-> found, mi |-> m, ai |-> a, final_filename |-> name,
     seen |-> seen, saved_files |-> result]

StartedWorker == Worker("started", <<>>, 0, 0, "", 0, EmptyMap)

Running(w) == workers[w].pc # "done"

\* a run_extraction that starts no thread while another extraction runs
RunExtractionGuarded ==
    /\ Len(workers) < MaxWorkers
    /\ \A w \in 1..Len(workers) : ~Running(w)
    /\ \E invoker \in Invokers : invoker = "button" => extract_btn = "normal"
    /\ workers' = Append(workers, StartedWorker)
    /\ UNCHANGED <<pc, log, providerVars, settings, mailbox, today, folder_access,
                   automationVars, extract_btn, testing, filterVars, saveVars>>

\* main_tab.py 189, 262-263: a new thread at every call; a disabled button
\* takes no click
RunExtraction ==
    /\ Len(workers) < MaxWorkers
    /\ \E invoker \in Invokers : invoker = "button" => extract_btn = "normal"
    /\ workers' = Append(workers, StartedWorker)
    /\ UNCHANGED <<pc, log, providerVars, settings, mailbox, today, folder_access,
                   automationVars, extract_btn, testing, filterVars, saveVars>>

\* main_tab.py 191-244: the thread disables the button and retrieves
WorkerRetrieves(w) ==
    /\ workers[w].pc = "started"
    /\ extract_btn' = "disabled"
    /\ \E connected \in BOOLEAN :
       \E found \in {IF connected
                     THEN get_messages_from_folders(settings.selected_folders, mailbox,
                              folder_access, today, settings.days, settings.keyword,
                              providers_text).messages
                     ELSE <<>>} :
          workers' = [workers EXCEPT ![w] =
                         IF found = <<>>
                         THEN Worker("finishing", found, 0, 0, "", 0, EmptyMap)
                         ELSE Worker("message", found, 1, 0, "", 0, EmptyMap)]
    /\ UNCHANGED <<pc, log, providerVars, settings, mailbox, today, folder_access,
                   automationVars, testing, filterVars, saveVars>>

WorkerMessage(w) == workers[w].messages[workers[w].mi]

WorkerItem(w) ==
    mailbox[WorkerMessage(w).folder_name][
        find_outlook_message(mailbox[WorkerMessage(w).folder_name], WorkerMessage(w))]

\* outlook_manager.py 528-568: the next message and its item
WorkerTakesMessage(w) ==
    /\ workers[w].pc = "message"
    /\ workers' = [workers EXCEPT ![w] =
          IF @.mi > Len(@.messages) THEN [@ EXCEPT !.pc = "finishing"]
          ELSE IF \/ @.messages[@.mi].attachments = <<>>
                  \/ find_outlook_message(mailbox[@.messages[@.mi].folder_name],
                                          @.messages[@.mi]) = 0
          THEN [@ EXCEPT !.mi = @ + 1]
          ELSE [@ EXCEPT !.pc = "attachment", !.ai = 1]]
    /\ UNCHANGED <<pc, log, providerVars, settings, mailbox, today, folder_access,
                   automationVars, extract_btn, testing, filterVars, saveVars>>

AfterAttachment(worker, item) ==
    IF worker.ai < Len(item.Attachments)
    THEN [worker EXCEPT !.pc = "attachment", !.ai = @ + 1]
    ELSE [worker EXCEPT !.pc = "message", !.mi = @ + 1]

\* outlook_manager.py 571-651: the name of the attachment, numbered until
\* os.path.exists finds no file of that name
WorkerPicksName(w) ==
    /\ workers[w].pc = "attachment"
    /\ workers' = [workers EXCEPT ![w] =
          IF ~is_document(WorkerItem(w).Attachments[@.ai])
          THEN AfterAttachment(@, WorkerItem(w))
          ELSE [@ EXCEPT !.pc = "saving",
                         !.seen = Len(writes),
                         !.final_filename =
                             final_name(disk, settings.extraction_mode,
                                 settings.naming_format,
                                 provider_prefix(WorkerMessage(w)),
                                 naming_suffix(settings.naming_format,
                                     settings.custom_suffix,
                                     WorkerMessage(w).received_time),
                                 settings.custom_suffix,
                                 WorkerItem(w).Attachments[workers[w].ai].FileName)]]
    /\ UNCHANGED <<pc, log, providerVars, settings, mailbox, today, folder_access,
                   automationVars, extract_btn, testing, filterVars, saveVars>>

\* outlook_manager.py 654-677: SaveAsFile on the name picked, which may fail
WorkerSaves(w) ==
    /\ workers[w].pc = "saving"
    /\ \E saved \in BOOLEAN :
          IF saved
          THEN /\ disk' = map_set(disk, str_lower(workers[w].final_filename),
                              FileOf(workers[w].final_filename, WorkerItem(w).Subject,
                                     WorkerItem(w).ReceivedTime[2],
                                     WorkerItem(w).Attachments[workers[w].ai].FileName))
               /\ writes' = Append(writes,
                              [name |-> workers[w].final_filename,
                               existed |-> path_exists(disk, workers[w].final_filename),
                               worker |-> w, seen |-> workers[w].seen])
               /\ workers' = [workers EXCEPT ![w] =
                     AfterAttachment(
                         [@ EXCEPT !.saved_files =
                              map_set(@, workers[w].final_filename,
                                      path_join(settings.folder,
                                                workers[w].final_filename))],
                         WorkerItem(w))]
          ELSE /\ workers' = [workers EXCEPT ![w] = AfterAttachment(@, WorkerItem(w))]
               /\ UNCHANGED <<disk, writes>>
    /\ UNCHANGED <<pc, log, providerVars, settings, mailbox, today, folder_access,
                   automationVars, extract_btn, testing, filterVars, saved_files,
                   latest_files, mi, ai, outlook_message>>

\* main_tab.py 254-260: the finally of the thread
WorkerFinishes(w) ==
    /\ workers[w].pc = "finishing"
    /\ workers' = [workers EXCEPT ![w].pc = "done"]
    /\ extract_btn' = "normal"
    /\ UNCHANGED <<pc, log, providerVars, settings, mailbox, today, folder_access,
                   automationVars, testing, filterVars, saveVars>>

\* main_tab.py 160-164, 175-176
TestConnection ==
    /\ ~testing
    /\ testing' = TRUE
    /\ extract_btn' = "disabled"
    /\ UNCHANGED <<pc, log, providerVars, settings, mailbox, today, folder_access,
                   automationVars, workers, filterVars, saveVars>>

\* main_tab.py 166-173
TestConnectionEnds ==
    /\ testing
    /\ testing' = FALSE
    /\ extract_btn' = "normal"
    /\ UNCHANGED <<pc, log, providerVars, settings, mailbox, today, folder_access,
                   automationVars, workers, filterVars, saveVars>>

Retrieve == \E w \in 1..Len(workers) : WorkerRetrieves(w)

TakeMessage == \E w \in 1..Len(workers) : WorkerTakesMessage(w)

PickName == \E w \in 1..Len(workers) : WorkerPicksName(w)

Save == \E w \in 1..Len(workers) : WorkerSaves(w)

Finish == \E w \in 1..Len(workers) : WorkerFinishes(w)

WindowItems ==
    { MailItem("Monthly Report", Acme, At(122, 600),
               <<Attachment("inv_a.pdf", 1), Attachment("logo.png", 1)>>) }

InitWindow ==
    /\ pc = "start"
    /\ providers_text = ""
    /\ message = NoMessage
    /\ InitIdle
    /\ settings \in {Settings("report", 7, n, "", "all", FALSE) : n \in {"date", "original"}}
    /\ mailbox \in Mailboxes(WindowItems, 1)
    /\ today = Now
    /\ folder_access = AllAccessible
    /\ disk \in Disks
    /\ InitNoAutomation
    /\ InitNoWindow

NextWindow ==
    \/ RunExtraction
    \/ TestConnection
    \/ TestConnectionEnds
    \/ Retrieve
    \/ TakeMessage
    \/ PickName
    \/ Save
    \/ Finish

SpecWindow == InitWindow /\ [][NextWindow]_vars

(***************************************************************************)
(* C1: in all mode no save writes to a path that exists at the moment of   *)
(* the save, be it a file from before the run or one saved earlier in the  *)
(* run, and the names of the files saved in the run are pairwise distinct. *)
(***************************************************************************)
C1_AllModeNeverOverwrites ==
    settings.extraction_mode = "all" =>
        /\ \A i \in Saves : ~writes[i].existed
        /\ \A i, j \in Saves :
              str_lower(writes[i].name) = str_lower(writes[j].name) => i = j
        /\ \A i \in Saves : /\ str_lower(writes[i].name) \in DOMAIN disk
                            /\ disk[str_lower(writes[i].name)].name = writes[i].name
        /\ Cardinality(DOMAIN saved_files) = Len(writes)

\* both old files are in the folder, and the run saved two files beside them
C1_Witness ==
    /\ pc = "done"
    /\ settings.extraction_mode = "all"
    /\ Len(writes) >= 2
    /\ \E i \in Saves : writes[i].name = "ACME2024-05-02_1_2.pdf"
    /\ disk["acme2024-05-02.pdf"] = OldFile("ACME2024-05-02.pdf")
    /\ disk["acme2024-05-02_1.pdf"] = OldFile("acme2024-05-02_1.pdf")

(***************************************************************************)
(* C2: in latest mode at most one attachment is saved per file_key, and it *)
(* comes from the message with the greatest received time among the        *)
(* accepted messages that carry an attachment with that key.               *)
(***************************************************************************)
C2_LatestSavesFromNewest ==
    settings.extraction_mode = "latest" =>
        /\ \A i, j \in Saves : writes[i].key = writes[j].key => i = j
        /\ \A i \in Saves : \A m \in Carriers(writes[i].key) :
              time_key(messages[m].received_time)
                  <= time_key(writes[i].source.ReceivedTime[2])

(***************************************************************************)
(* C3: when no save fails, the returned mapping has exactly one entry per  *)
(* attachment that survived classification (and, in latest mode, dedup),   *)
(* and distinct surviving attachments have distinct final filenames.       *)
(***************************************************************************)
Survivors ==
    IF settings.extraction_mode = "latest"
    THEN Cardinality({CarriedKey(p) : p \in Carried})
    ELSE Cardinality(Carried)

C3_OneEntryPerSurvivor ==
    (pc = "done" /\ NoSaveFailed) =>
        /\ Cardinality(DOMAIN saved_files) = Survivors
        /\ \A i, j \in Saves : writes[i].name = writes[j].name => i = j

(***************************************************************************)
(* C4 (as written): a rule with '@' matches on the sender address in       *)
(* either direction of containment, a rule without '@' matches on the      *)
(* lower-cased subject and does not consult the sender.                    *)
(***************************************************************************)
SpecRuleMatches(pattern, sender, subject) ==
    IF str_in("@", pattern)
    THEN str_in(pattern, sender) \/ str_in(sender, pattern)
    ELSE str_in(pattern, str_lower(subject))

SenderRuleMatches(pattern, sender) == str_in(pattern, sender) \/ str_in(sender, pattern)

MatchingLines(lines, sender) ==
    {n \in LinesOfKind(lines, "valid") : SenderRuleMatches(lines[n].pattern, sender)}

FirstLineLabel(lines, matching) == lines[Min(matching)].label

C5_FirstLineLabel ==
    (pc = "resolved" /\ HasSender(message)) =>
        \A lines \in {TextLines} :
        \A matching \in {MatchingLines(lines, SenderOf(message))} :
            matching # {} =>
                /\ include_result.include
                /\ include_result.label = FirstLineLabel(lines, matching)

(***************************************************************************)
(* C6: when the configuration yields no valid rule, every message that     *)
(* passes the date and keyword checks is accepted with an empty label, and *)
(* every file saved from it is named with the prefix unknown.              *)
(***************************************************************************)
ContainsKeyword(subject) ==
    settings.keyword = "" \/ str_in(str_lower(settings.keyword), str_lower(subject))

DateBefore(d, e) ==
    \/ d.year < e.year
    \/ d.year = e.year /\ d.month < e.month
    \/ d.year = e.year /\ d.month = e.month /\ d.day < e.day

InWindow(item) ==
    /\ item.ReceivedTime[1] = "ok"
    /\ ~DateBefore(date_of(item.ReceivedTime[2]),
                   date_of(DateTime(today.day - settings.days, today.minute)))

PassesDateAndKeyword(item) == InWindow(item) /\ ContainsKeyword(item.Subject)

Accepted == {i \in 1..Len(checked) : checked[i].outcome = "accepted"}

ResolveIncludes(item) == should_include_message(item, providers).include

ThreeChecksPass(item) == PassesDateAndKeyword(item) /\ ResolveIncludes(item)

LabelOfMatchingRule(item, label) ==
    \E r \in 1..Len(providers) :
        /\ rule_matches(providers[r].key, SenderOf(item))
        /\ providers[r].value = label

ReturnedAreAccepted ==
    /\ Len(messages) = Cardinality(Accepted)
    /\ \A i \in Accepted : \E m \in 1..Len(messages) :
          /\ messages[m].subject = checked[i].item.Subject
          /\ messages[m].received_time = checked[i].item.ReceivedTime[2]
          /\ messages[m].provider_name = checked[i].label

MatchedWhenSenderKnown ==
    providers # <<>> =>
        \A i \in Accepted :
            HasSender(checked[i].item)
                => LabelOfMatchingRule(checked[i].item, checked[i].label)

RecordCanBeBuilt(item) == item.SenderEmailAddress # Raises

EarlyOutcomes == {"no_date", "date_filtered", "keyword_filtered"}

C8_KeywordBeforeProvider ==
    (pc = "got" /\ Connected /\ settings.keyword # "") =>
        /\ \A m \in 1..Len(messages) : ContainsKeyword(messages[m].subject)
        /\ \A i \in 1..Len(checked) :
              ~ContainsKeyword(checked[i].item.Subject) =>
                  /\ checked[i].outcome \in EarlyOutcomes
                  /\ InWindow(checked[i].item) => checked[i].outcome = "keyword_filtered"
        /\ \A f \in 1..Len(folder_stats) :
              folder_stats[f].keyword_filtered =
                  Cardinality({i \in 1..Len(checked) :
                                  /\ InWindow(checked[i].item)
                                  /\ ~ContainsKeyword(checked[i].item.Subject)})

\* the keyword rejects a message whose sender matches a rule and one without sender
C8_Witness ==
    /\ pc = "got"
    /\ Connected
    /\ providers = <<[key |-> "acme.com", value |-> "ACME"]>>
    /\ Len(checked) = 2
    /\ \A i \in 1..Len(checked) :
          /\ checked[i].item.Subject = "Monthly Summary"
          /\ checked[i].outcome = "keyword_filtered"
    /\ \E i \in 1..Len(checked) : LabelOfMatchingRule(checked[i].item, "ACME")
    /\ \E i \in 1..Len(checked) : ~HasSender(checked[i].item)

(***************************************************************************)
(* C9: with a non-empty rule table, a message whose sender address no      *)
(* lookup method determines, or whose sender lookup raises, is included    *)
(* with an empty label whatever the rules are; resolve never returns       *)
(* include = false for it, which is what counts a message as               *)
(* provider-filtered.                                                      *)
(***************************************************************************)
C9_FailOpenWithoutSender ==
    (pc = "resolved" /\ providers # <<>> /\ ~HasSender(message)) =>
        /\ include_result.include
        /\ include_result.label = ""
        /\ \E i \in 1..Len(log) :
              /\ log[i].level = "WARNING"
              /\ log[i].event \in {"no_sender_email", "provider_check_error"}

\* the lookup raises for a message whose display name a rule would match
C9_Witness ==
    /\ pc = "resolved"
    /\ sender_lookup(message).raised
    /\ message.SenderName = Ok("billing@acme.com")
    /\ \E i \in 1..Len(providers) : providers[i].key = "billing@acme.com"
    /\ include_result.include
    /\ include_result.label = ""

(***************************************************************************)
(* C10: each meaningful line is split on its first '=', both sides are     *)
(* trimmed, the pattern is lower-cased and the label kept verbatim; a line *)
(* without '=' or with an empty side gets one WARNING and is skipped while *)
(* the valid lines around it are parsed; blank and '#' lines give no rule  *)
(* and no warning.                                                         *)
(***************************************************************************)
ParsedAs(lines, valid, invalid) ==
    /\ dict_keys(providers) = {lines[n].pattern : n \in valid}
    /\ \A i \in 1..Len(providers) :
          /\ \E n \in valid : /\ lines[n].pattern = providers[i].key
                              /\ lines[n].label = providers[i].value
          /\ \A j \in 1..Len(providers) : providers[j].key = providers[i].key => j = i
    /\ {log[i].arg : i \in LineWarnings} = invalid
    /\ Cardinality(LineWarnings) = Cardinality(invalid)
    /\ Cardinality({i \in 1..Len(log) : log[i].event = "rule"}) = Cardinality(valid)

C10_ParseContract ==
    (pc # "parse") =>
        \A lines \in {TextLines} :
            ParsedAs(lines, LinesOfKind(lines, "valid"), LinesOfKind(lines, "invalid"))

\* an invalid line between two valid ones, an upper-case pattern, a label with '='
C10_Witness ==
    /\ pc # "parse"
    /\ providers_text = "  Bob@Corp.com=Corp=Inc \nno equals\nacme.com = Dom"
    /\ providers = <<[key |-> "bob@corp.com", value |-> "Corp=Inc"],
                     [key |-> "acme.com", value |-> "Dom"]>>
    /\ Cardinality(LineWarnings) = 1

(***************************************************************************)
(* C11 (as written): parsing the same text twice gives the same table;     *)
(* resolving the same message against the same table gives the same        *)
(* (include, label) whatever was resolved before; and adding, removing or  *)
(* reordering rules that do not match the message does not change its      *)
(* result.                                                                 *)
(***************************************************************************)
Calls == 1..Len(history)

Answer(i) == <<history[i].result.include, history[i].result.label>>

\* the rules of a table that match the message, in table order
RulesMatching(table, sender) ==
    SelectSeq(table, LAMBDA rule : SenderRuleMatches(rule.key, sender))

RelatedRules(table, m) == RulesMatching(table, SenderOf(m))

SameRelatedRules(i, j) ==
    /\ history[i].message = history[j].message
    /\ RelatedRules(history[i].table, history[i].message)
          = RelatedRules(history[j].table, history[j].message)

Repeatable ==
    /\ \A i, j \in Calls : history[i].text = history[j].text
                              => history[i].table = history[j].table
    /\ \A i, j \in Calls :
          (history[i].table = history[j].table /\ history[i].message = history[j].message)
              => Answer(i) = Answer(j)

C11_UnrelatedRulesNeverMatter ==
    /\ Repeatable
    /\ \A i, j \in Calls : SameRelatedRules(i, j) => Answer(i) = Answer(j)

(***************************************************************************)
(* C11 (amended): as written, as long as the table has a rule before and   *)
(* after the change: the first unrelated rule added to an empty table, or  *)
(* the removal of the last one, turns the result of a message with a       *)
(* determinable sender from (true, "") into (false, "") and back.          *)
(***************************************************************************)
C11_UnrelatedRulesOfNonEmptyTables ==
    /\ Repeatable
    /\ \A i, j \in Calls :
          (SameRelatedRules(i, j) /\ (history[i].table = <<>> <=> history[j].table = <<>>))
              => Answer(i) = Answer(j)

\* the same message resolved before and after an unrelated rule was put in
\* front of the rule that matches it
C11_Witness ==
    /\ Len(history) = 2
    /\ history[1].message = history[2].message
    /\ history[1].table = <<[key |-> "acme.com", value |-> "Dom"]>>
    /\ history[2].table = <<[key |-> "corp.com", value |-> "Corp"],
                            [key |-> "acme.com", value |-> "Dom"]>>
    /\ Answer(1) = <<TRUE, "Dom">>
    /\ Answer(2) = <<TRUE, "Dom">>

(***************************************************************************)
(* C12: the list get_messages_from_folders returns is ordered by received  *)
(* time, newest first, and two messages received at the same time appear   *)
(* in the order in which they were retrieved (folder list order, then the  *)
(* order inside the folder).                                               *)
(***************************************************************************)
\* the position, among everything the scan looked at, of the item a returned
\* message was built from
RetrievedAt(msg) ==
    Min({i \in Accepted : /\ checked[i].item.Subject = msg.subject
                          /\ checked[i].folder_name = msg.folder_name
                          /\ checked[i].item.ReceivedTime[2] = msg.received_time})

InOrder(earlier, later) ==
    \/ time_key(earlier.received_time) > time_key(later.received_time)
    \/ /\ time_key(earlier.received_time) = time_key(later.received_time)
       /\ RetrievedAt(earlier) < RetrievedAt(later)

C12_NewestFirstTiesInRetrievalOrder ==
    (pc = "got" /\ Connected) =>
        /\ Len(messages) = Cardinality(Accepted)
        /\ \A i, j \in 1..Len(messages) : i < j => InOrder(messages[i], messages[j])

\* three messages: the newest was retrieved second and is returned first; the
\* other two were received at the same time in different folders and keep the
\* order of the folder list
C12_Witness ==
    /\ pc = "got"
    /\ settings.selected_folders = <<"Archive", "Inbox">>
    /\ Len(messages) = 3
    /\ RetrievedAt(messages[1]) = 2
    /\ messages[2].received_time = messages[3].received_time
    /\ messages[2].folder_name = "Archive"
    /\ messages[3].folder_name = "Inbox"

(***************************************************************************)
(* C13: an attachment whose filename contains, case-insensitively, one of  *)
(* the denylist substrings, at any position and with any extension, is     *)
(* never in a message's classified list and is never saved.                *)
(***************************************************************************)
Denylist ==
    {"image001", "image002", "image003", "image004", "image005", "outlook-logo",
     "brandimage", "coverimage", "openlinkicon", "signature", "logo", "banner"}

OccursIn(pattern, lowered) ==
    \E i \in 1..(Len(lowered) - Len(pattern) + 1) :
        SubSeq(lowered, i, i + Len(pattern) - 1) = pattern

HasDenylisted(lowered) == \E pattern \in Denylist : OccursIn(pattern, lowered)

Denylisted(filename) == HasDenylisted(str_lower(filename))

\* the attachment a write was made from
SavedFrom(w) == w.source.Attachments[w.ai]

C13_DenylistedNeverClassifiedNorSaved ==
    /\ \A i \in 1..Len(messages) : \A k \in 1..Len(messages[i].attachments) :
          ~Denylisted(messages[i].attachments[k])
    /\ \A i \in 1..Len(writes) : ~Denylisted(SavedFrom(writes[i]).FileName)
    /\ \A k \in DOMAIN disk : ~Denylisted(disk[k].original_name)

\* a message with a denylisted name in the middle of its attachments, in upper
\* case and with an allowed extension, was saved completely: only its other
\* document was written
C13_Witness ==
    /\ pc = "done"
    /\ \E i \in 1..Len(messages) :
          /\ messages[i].subject = "Daily report"
          /\ messages[i].attachments = <<"sum.pdf">>
          /\ \E j \in 1..Len(writes) :
                /\ writes[j].mi = i
                /\ \E a \in 1..Len(writes[j].source.Attachments) :
                      /\ writes[j].source.Attachments[a].Type = olByValue
                      /\ Denylisted(writes[j].source.Attachments[a].FileName)
                      /\ has_doc_extension(str_lower(splitext(
                             writes[j].source.Attachments[a].FileName)[2]))
          /\ \A j \in 1..Len(writes) : writes[j].mi = i => SavedFrom(writes[j]).FileName = "sum.pdf"

(***************************************************************************)
(* C14: the classified attachment list of a message is exactly the         *)
(* subsequence, in input order, of its raw attachments that have the       *)
(* stored-file type tag, a non-empty filename, no denylist substring and   *)
(* an extension, compared case-insensitively, in the document allow-list;  *)
(* and the classifier applied while saving accepts an attachment exactly   *)
(* when the classifier applied while filtering does.                       *)
(***************************************************************************)
AllowList ==
    {".pdf", ".doc", ".docx", ".xls", ".xlsx", ".ppt", ".pptx",
     ".txt", ".csv", ".zip", ".rar", ".7z", ".xml", ".json"}

RealDocument(a) ==
    /\ a.Type = 1
    /\ a.FileName # ""
    /\ ~Denylisted(a.FileName)
    /\ str_lower(splitext(a.FileName)[2]) \in AllowList

NamesOf(attachments) == [k \in 1..Len(attachments) |-> attachments[k].FileName]

RealDocuments(attachments) == NamesOf(SelectSeq(attachments, RealDocument))

\* stated of the list as get_messages_from_folders returns it
ListsAreTheRealDocuments ==
    pc = "got" =>
        \A i \in 1..Len(messages) :
            messages[i].attachments
                = RealDocuments(checked[RetrievedAt(messages[i])].item.Attachments)

\* the saver went past its classifier with the attachment at hand: it saved it,
\* failed to save it, or left it out as an older copy
SaverAccepts ==
    /\ Len(log') > Len(log)
    /\ log'[Len(log')].event \in {"saved", "save_failed", "skipped_older"}

SaverAgrees ==
    pc = "attachment" => (SaverAccepts <=> RealDocument(outlook_message.Attachments[ai]))

AtMessageWithoutDocuments ==
    /\ pc = "message"
    /\ mi <= Len(messages)
    /\ messages[mi].attachments = <<>>

PassedOver ==
    AtMessageWithoutDocuments =>
        /\ mi' = mi + 1
        /\ pc' = "message"
        /\ UNCHANGED <<outlook_message, ai, latest_files, disk, writes, saved_files, log>>

NothingSavedForEmptyLists ==
    \A j \in 1..Len(writes) : messages[writes[j].mi].attachments # <<>>

C15_EmptyListNeverNamed == []NothingSavedForEmptyLists /\ [][PassedOver]_vars

\* a finished run in latest mode whose newest message had attachments but no
\* document: everything saved and claimed comes from the other message
C15_Witness ==
    /\ pc = "done"
    /\ settings.extraction_mode = "latest"
    /\ Len(messages) = 2
    /\ messages[1].attachments = <<>>
    /\ Len(checked[RetrievedAt(messages[1])].item.Attachments) > 0
    /\ Len(writes) = 2
    /\ \A j \in 1..Len(writes) : writes[j].mi = 2
    /\ Cardinality(DOMAIN latest_files) = 2
    /\ Cardinality(DOMAIN saved_files) = 2
    /\ outlook_message.Subject = messages[2].subject

(***************************************************************************)
(* C16: in `all` mode, when the candidate name N.ext already exists in the *)
(* output directory, the final filename is N_k.ext for the smallest        *)
(* positive k for which N_k.ext does not exist: the suffixes _1, _2, _3,   *)
(* ... are each put once between the original stem N and the extension.    *)
(***************************************************************************)
\* the name of write j before collision handling
CandidateOf(w) ==
    candidate_filename(settings.extraction_mode, settings.naming_format,
                       provider_prefix(messages[w.mi]),
                       naming_suffix(settings.naming_format, settings.custom_suffix,
                                     messages[w.mi].received_time),
                       settings.custom_suffix, SavedFrom(w).FileName)

\* the names, as the file system compares them, in the output directory when
\* write j was made: the files of before the run and the earlier writes
ExistingBefore(j) ==
    {k \in DOMAIN disk : disk[k].original_name = ""}
        \cup {str_lower(writes[i].name) : i \in 1..(j - 1)}

WithSuffix(parts, k) == parts[1] \o "_" \o int_str(k) \o parts[2]

SmallestFree(existing, parts) ==
    Min({k \in 1..(Cardinality(existing) + 1) :
            str_lower(WithSuffix(parts, k)) \notin existing})

ExpectedName(existing, candidate) ==
    IF str_lower(candidate) \notin existing THEN candidate
    ELSE WithSuffix(splitext(candidate), SmallestFree(existing, splitext(candidate)))

C16_SmallestFreeSuffix ==
    settings.extraction_mode = "all" =>
        \A j \in 1..Len(writes) :
            writes[j].name = ExpectedName(ExistingBefore(j), CandidateOf(writes[j]))

\* the third file of a run into an empty directory whose first two files were
\* unknown2024.pdf and unknown2024_1.pdf
C16_Witness ==
    /\ settings.extraction_mode = "all"
    /\ Len(writes) = 3
    /\ ExistingBefore(3) = {"unknown2024.pdf", "unknown2024_1.pdf"}
    /\ CandidateOf(writes[3]) = "unknown2024.pdf"
    /\ writes[3].name = "unknown2024_1_2.pdf"

(***************************************************************************)
(* C17: before collision handling the final filename is the formula of its *)
(* mode and naming format, with provider_prefix the label of the message,  *)
(* or `unknown` when the label is empty, and the date or year of the       *)
(* message's received time: in `latest` mode prefix+suffix+ext for date    *)
(* and year and prefix+"_"+original name for original and custom; in       *)
(* `all` mode prefix+"_"+original name for original, prefix+suffix+ext for *)
(* date and year and prefix+custom_suffix+ext for custom.                  *)
(***************************************************************************)
PrefixOf(label) == IF label = "" THEN "unknown" ELSE label

DateOrYear(received_time) ==
    IF settings.naming_format = "date" THEN strftime_date(received_time)
    ELSE strftime_year(received_time)

FormulaName(prefix, received_time, original_name, ext) ==
    CASE settings.naming_format \in {"date", "year"} ->
             prefix \o DateOrYear(received_time) \o ext
      [] settings.naming_format = "original" -> prefix \o "_" \o original_name
      [] settings.naming_format = "custom" /\ settings.extraction_mode = "latest" ->
             prefix \o "_" \o original_name
      [] settings.naming_format = "custom" /\ settings.extraction_mode = "all" ->
             prefix \o settings.custom_suffix \o ext

FormulaOf(w) ==
    FormulaName(PrefixOf(messages[w.mi].provider_name), messages[w.mi].received_time,
                SavedFrom(w).FileName, splitext(SavedFrom(w).FileName)[2])

\* name is the formula's name, or what collision handling made of it
NamedAfter(name, existing, formula) ==
    IF settings.extraction_mode = "latest" \/ str_lower(formula) \notin existing
    THEN name = formula
    ELSE /\ startswith(name, splitext(formula)[1] \o "_")
         /\ splitext(name)[2] = splitext(formula)[2]

C17_NameFollowsFormula ==
    \A j \in 1..Len(writes) :
        NamedAfter(writes[j].name, ExistingBefore(j), FormulaOf(writes[j]))

\* latest mode with the custom format: a document of a message without label
\* and a document of a message with label ACME
C17_Witness ==
    /\ pc = "done"
    /\ settings.extraction_mode = "latest"
    /\ settings.naming_format = "custom"
    /\ settings.custom_suffix = "_v"
    /\ Len(writes) = 2
    /\ messages[writes[1].mi].provider_name = ""
    /\ writes[1].name = "unknown_sum.pdf"
    /\ messages[writes[2].mi].provider_name = "ACME"
    /\ writes[2].name = "ACME_inv_b.pdf"

(***************************************************************************)
(* C18: end to end, with a single rule `P = L` whose pattern P, written    *)
(* without `@`, is a substring of the sender address, a message inside the *)
(* date window whose attachments are one allow-listed document and one     *)
(* denylisted image, naming format `date`, mode `all` and an empty output  *)
(* directory, the result is exactly one record, whose filename is L, the   *)
(* received date as YYYY-MM-DD and the extension of the document.          *)
(***************************************************************************)
NoErrorReported == \A i \in 1..Len(log) : log[i].level # "ERROR"

DocumentAndImage(attachments, d, g) ==
    /\ RealDocument(attachments[d])
    /\ Denylisted(attachments[g].FileName)
    /\ str_lower(splitext(attachments[g].FileName)[2]) \notin AllowList

\* the position of the document among two attachments that are a document
\* and a denylisted image; 0 for any other attachments
DocumentAmongTwo(attachments) ==
    IF Len(attachments) # 2 THEN 0
    ELSE IF DocumentAndImage(attachments, 1, 2) THEN 1
    ELSE IF DocumentAndImage(attachments, 2, 1) THEN 2
    ELSE 0

IsScenario(item) ==
    /\ Len(providers) = 1
    /\ ~str_in("@", providers[1].key)
    /\ item.SenderEmailAddress[1] = "ok"
    /\ str_in(providers[1].key, str_lower(item.SenderEmailAddress[2]))
    /\ InWindow(item)
    /\ ContainsKeyword(item.Subject)
    /\ DocumentAmongTwo(item.Attachments) # 0
    /\ settings.naming_format = "date"
    /\ settings.extraction_mode = "all"
    /\ \A k \in DOMAIN disk : disk[k].original_name # ""

ScenarioName(item, d) ==
    providers[1].value \o strftime_date(item.ReceivedTime[2])
        \o splitext(item.Attachments[d].FileName)[2]

OneRecord(name) ==
    /\ DOMAIN saved_files = {name}
    /\ saved_files[name] = settings.folder \o "\\" \o name

EventsNamed(event) == {i \in 1..Len(log) : log[i].event = event}

\* save_attachments goes on with the next attachment of the item, or with the
\* next message after its last attachment
MovesOn ==
    IF ai < Len(outlook_message.Attachments)
    THEN ai' = ai + 1 /\ mi' = mi /\ pc' = "attachment"
    ELSE mi' = mi + 1 /\ pc' = "message"

FailedSaveIsLocal ==
    (pc = "attachment" /\ Len(log') > Len(log) /\ log'[Len(log')].event = "save_failed") =>
        /\ Len(log') = Len(log) + 1
        /\ log'[Len(log')].level = "ERROR"
        /\ UNCHANGED <<saved_files, disk, writes>>
        /\ MovesOn

FailedDirectoryIsReported ==
    (pc = "got" /\ messages # <<>> /\ pc' = "done") =>
        /\ Len(log') = Len(log) + 1
        /\ log'[Len(log')] = Ev("ERROR", "save_attachments_error", 0)
        /\ saved_files' = EmptyMap

MappingIsTheSuccessfulSaves ==
    /\ DOMAIN saved_files = {writes[j].name : j \in Saves}
    /\ \A name \in DOMAIN saved_files :
          saved_files[name] = settings.folder \o "\\" \o name
    /\ Len(writes) = Cardinality(EventsNamed("saved"))

\* save_attachments was called and got past its set-up
SaveLoopEntered == messages # <<>> /\ EventsNamed("save_attachments_error") = {}

EveryMessageVisited == (pc = "done" /\ SaveLoopEntered) => mi = Len(messages) + 1

C19_FailuresAreLocal ==
    /\ [](MappingIsTheSuccessfulSaves /\ EveryMessageVisited)
    /\ [][FailedSaveIsLocal /\ FailedDirectoryIsReported]_vars

\* a finished run in which the first document of the first message could not
\* be saved, and its second document and the document of the next message were
C19_Witness ==
    /\ pc = "done"
    /\ settings.extraction_mode = "all"
    /\ settings.naming_format = "original"
    /\ Len(messages) = 2
    /\ Cardinality(EventsNamed("save_failed")) = 1
    /\ \E i \in EventsNamed("save_failed") :
          log[i].level = "ERROR" /\ log[i].arg = 1 /\ EventsNamed("saved") = {i + 1, i + 2}
    /\ Len(writes) = 2
    /\ writes[1].mi = 1 /\ writes[1].ai = 2
    /\ writes[2].mi = 2
    /\ DOMAIN saved_files = {"ACME_sum.pdf", "Corp_Inv.PDF"}

(***************************************************************************)
(* C20: when the mail client cannot be reached at the start of a run, the  *)
(* run is aborted before any folder is scanned, the failure is reported at *)
(* ERROR level, and the caller is given the failure in a way that differs  *)
(* from a run that connected and found no matching message.                *)
(***************************************************************************)
ConnectFailed == EventsNamed("connect_failed") # {}

AbortedBeforeScanning == checked = <<>> /\ folder_stats = <<>> /\ writes = <<>>

ReportedAsError == \A i \in EventsNamed("connect_failed") : log[i].level = "ERROR"

\* what run_extraction does with a run that found nothing
TreatedAsNoMatch == EventsNamed("no_matching_messages") # {}

C20_ConnectFailureToldApart ==
    ConnectFailed =>
        /\ AbortedBeforeScanning
        /\ ReportedAsError
        /\ ~TreatedAsNoMatch

\* the end of a run that could not connect: two ERROR events of
\* get_messages_from_folders, an empty list, and the caller's warning that no
\* message matched
C20_Witness ==
    /\ pc = "done"
    /\ mailbox["Inbox"] # <<>>
    /\ messages = <<>>
    /\ log = <<Ev("ERROR", "connect_failed", 0), Ev("ERROR", "retrieve_error", 0),
               Ev("WARNING", "no_matching_messages", 0)>>

(***************************************************************************)
(* C21: during retrieval a folder that cannot be found or read is logged   *)
(* and skipped, and a message whose processing raises is logged and        *)
(* skipped; every other folder of the list and every other message of a    *)
(* folder is still examined, so the returned list holds every message of   *)
(* the remaining folders that passes the filters.                          *)
(***************************************************************************)
Selected == {settings.selected_folders[n] : n \in 1..Len(settings.selected_folders)}

Readable == {f \in Selected : folder_access[f] = "ok"}

ExaminedIn(f) == {i \in 1..Len(checked) : checked[i].folder_name = f}

\* the positions in folder f of the items that pass the filters and whose
\* record can be built
PassingIn(f) ==
    {k \in 1..Len(mailbox[f]) :
        ThreeChecksPass(mailbox[f][k]) /\ RecordCanBeBuilt(mailbox[f][k])}

ReturnedFrom(f) == {m \in 1..Len(messages) : messages[m].folder_name = f}

SkippedFoldersAreLogged ==
    /\ Cardinality(EventsNamed("folder_not_found"))
          = Cardinality({f \in Selected : folder_access[f] = "missing"})
    /\ Cardinality(EventsNamed("folder_error"))
          = Cardinality({f \in Selected : folder_access[f] = "raises"})
    /\ \A i \in EventsNamed("folder_not_found") : log[i].level = "WARNING"
    /\ \A i \in EventsNamed("folder_error") : log[i].level = "ERROR"
    /\ \A f \in Selected \ Readable : ExaminedIn(f) = {} /\ ReturnedFrom(f) = {}

SkippedMessagesAreLogged ==
    /\ Cardinality(EventsNamed("message_error"))
          = Cardinality({i \in 1..Len(checked) : checked[i].outcome = "error"})
    /\ \A i \in EventsNamed("message_error") : log[i].level = "WARNING"
    /\ \A i \in 1..Len(checked) :
          checked[i].outcome = "error" =>
              \A m \in ReturnedFrom(checked[i].folder_name) :
                  messages[m].subject # checked[i].item.Subject

TheRestIsReturned ==
    \A f \in Readable :
        /\ Cardinality(ExaminedIn(f)) = Len(mailbox[f])
        /\ Cardinality(ReturnedFrom(f)) = Cardinality(PassingIn(f))
        /\ \A k \in PassingIn(f) : \E m \in ReturnedFrom(f) :
              messages[m].subject = mailbox[f][k].Subject

C21_FailuresSkipOnlyThemselves ==
    (pc = "got" /\ Connected) =>
        /\ SkippedFoldersAreLogged
        /\ SkippedMessagesAreLogged
        /\ TheRestIsReturned

\* the first folder of the list cannot be read; in the second the newest
\* message cannot be made a record and the one after it is returned
C21_Witness ==
    /\ pc = "got"
    /\ settings.selected_folders = <<"Archive", "Inbox">>
    /\ folder_access["Archive"] = "raises"
    /\ folder_access["Inbox"] = "ok"
    /\ Len(checked) = 2
    /\ checked[1].outcome = "error"
    /\ checked[2].outcome = "accepted"
    /\ Len(messages) = 1
    /\ messages[1].subject = "Report one"
    /\ EventsNamed("folder_error") # {}
    /\ EventsNamed("message_error") # {}

(***************************************************************************)
(* C22: when conversion is enabled and converting a saved attachment       *)
(* fails, the failure is reported at WARNING level only: the file saved    *)
(* first stays in place, the result maps the original final filename to    *)
(* the original path, and the remaining attachments and messages are       *)
(* processed as they are without conversion.                               *)
(***************************************************************************)
ConversionAsked == settings.conversion_enabled /\ settings.convert_all_to_format # ""

\* a failed conversion leaves one WARNING, directly followed by the SUCCESS
\* event of the save it belongs to
ConversionFailuresAreWarnings ==
    /\ \A i \in EventsNamed("conversion_failed") :
          /\ log[i].level = "WARNING"
          /\ i < Len(log)
          /\ log[i + 1] = Ev("SUCCESS", "saved", log[i].arg)
    /\ Cardinality(EventsNamed("conversion_failed"))
          = IF ConversionAsked THEN Len(writes) ELSE 0

SavedFilesStay ==
    \A j \in Saves :
        /\ str_lower(writes[j].name) \in DOMAIN disk
        /\ writes[j].name \in DOMAIN saved_files
        /\ saved_files[writes[j].name] = settings.folder \o "\\" \o writes[j].name

C22_ConversionFailureIsOnlyAWarning ==
    /\ ConversionFailuresAreWarnings
    /\ SavedFilesStay
    /\ Len(writes) = Cardinality(EventsNamed("saved"))
    /\ EveryMessageVisited

\* a finished run with conversion asked for that saved the documents of two
\* messages
C22_Witness ==
    /\ pc = "done"
    /\ ConversionAsked
    /\ settings.extraction_mode = "all"
    /\ Len(messages) = 2
    /\ Len(writes) = 3
    /\ writes[1].mi = 1
    /\ writes[3].mi = 2
    /\ Cardinality(EventsNamed("conversion_failed")) = 3
    /\ Cardinality(DOMAIN saved_files) = 3
    /\ EventsNamed("save_failed") = {}

(***************************************************************************)
(* C26: in latest mode a file_key is claimed before the save of its        *)
(* attachment is attempted and is never released: when the save of the     *)
(* first attachment of a key fails, every later attachment with that key   *)
(* is skipped as an older version, and the run ends with no file and no    *)
(* record for that key.                                                    *)
(***************************************************************************)
LatestMode == settings.extraction_mode = "latest"

AtDocument == pc = "attachment" /\ is_document(outlook_message.Attachments[ai])

CurrentKey == file_key(outlook_message.Attachments[ai].FileName)

\* the attempt on an unclaimed key claims it, whether the save succeeds or not
ClaimedBeforeTheSave ==
    LatestMode /\ AtDocument /\ CurrentKey \notin DOMAIN latest_files
        => /\ CurrentKey \in DOMAIN latest_files'
           /\ latest_files'[CurrentKey] = messages[mi].received_time
           /\ Len(log') > Len(log)
           /\ log'[Len(log')].event \in {"saved", "save_failed"}

NeverReleased ==
    \A k \in DOMAIN latest_files :
        k \in DOMAIN latest_files' /\ latest_files'[k] = latest_files[k]

\* an attachment whose key is claimed is passed over
ClaimedKeyIsSkipped ==
    LatestMode /\ AtDocument /\ CurrentKey \in DOMAIN latest_files
        => /\ log' = Append(log, Ev("INFO", "skipped_older", ai))
           /\ UNCHANGED <<disk, writes, saved_files>>

KeysWithoutFile == DOMAIN latest_files \ {writes[j].key : j \in Saves}

\* one attempt per claimed key: the keys without a file are as many as the
\* failed saves, and no record comes from them
OneAttemptPerKey ==
    LatestMode =>
        /\ \A j \in Saves : writes[j].key \in DOMAIN latest_files
        /\ \A i, j \in Saves : writes[i].key = writes[j].key => i = j
        /\ Cardinality(KeysWithoutFile) = Cardinality(EventsNamed("save_failed"))
        /\ Cardinality(DOMAIN saved_files) <= Len(writes)

C26_FailedSaveKeepsTheKey ==
    /\ []OneAttemptPerKey
    /\ [][ClaimedBeforeTheSave /\ NeverReleased /\ ClaimedKeyIsSkipped]_vars

\* a finished run over two messages that carry the key inv.pdf: the save of
\* the first failed, the second was skipped, nothing was saved
C26_Witness ==
    /\ pc = "done"
    /\ LatestMode
    /\ Len(messages) = 2
    /\ KeysWithoutFile = {"inv.pdf"}
    /\ writes = <<>>
    /\ saved_files = EmptyMap
    /\ \E i \in EventsNamed("save_failed") :
          \E j \in EventsNamed("skipped_older") : i < j

(***************************************************************************)
(* C27: in latest mode no collision resolution is applied: the save goes   *)
(* to the output directory under the final filename whatever is there, so  *)
(* a file of that name from before the run, or one written earlier in the  *)
(* run under another file_key, is overwritten, and the mapping keeps a     *)
(* single entry for the name.                                              *)
(***************************************************************************)
\* the last write that went to the file of write j
LastWriteTo(j) ==
    CHOOSE i \in Saves :
        /\ str_lower(writes[i].name) = str_lower(writes[j].name)
        /\ \A l \in Saves : str_lower(writes[l].name) = str_lower(writes[j].name) => l <= i

WrittenFile(w) ==
    FileOf(w.name, w.source.Subject, w.source.ReceivedTime[2], SavedFrom(w).FileName)

TargetIsTheCandidate ==
    \A j \in Saves : writes[j].name = CandidateOf(writes[j])

LaterWriteReplaces ==
    \A j \in Saves :
        disk[str_lower(writes[j].name)] = WrittenFile(writes[LastWriteTo(j)])

OneEntryPerName ==
    /\ DOMAIN saved_files = {writes[j].name : j \in Saves}
    /\ \A j \in Saves :
          saved_files[writes[j].name] = path_join(settings.folder, writes[j].name)

C27_LatestModeOverwrites ==
    LatestMode => TargetIsTheCandidate /\ LaterWriteReplaces /\ OneEntryPerName

\* a finished run in latest mode whose first write replaced a file of before
\* the run and whose second write, of another key, replaced the first
C27_Witness ==
    /\ pc = "done"
    /\ LatestMode
    /\ Len(writes) = 2
    /\ writes[1].existed
    /\ writes[2].name = writes[1].name
    /\ writes[2].key # writes[1].key
    /\ Cardinality(DOMAIN saved_files) = 1
    /\ disk[str_lower(writes[1].name)] = WrittenFile(writes[2])

(***************************************************************************)
(* C28: save_attachments resolves an accepted message to the first item of *)
(* its folder with the same subject, the same received date (time of day   *)
(* ignored) and at least one attachment; two accepted messages of one      *)
(* folder with equal subject and received date resolve to the same item,   *)
(* and the files saved under each message's prefix and date are that       *)
(* item's attachments, not necessarily the message's own.                  *)
(***************************************************************************)
LooksLike(item, msg) ==
    /\ item.Subject = msg.subject
    /\ item.ReceivedTime[1] = "ok"
    /\ item.ReceivedTime[2].day = msg.received_time.day
    /\ Len(item.Attachments) > 0

FirstLookingLike(msg) ==
    CHOOSE i \in 1..Len(mailbox[msg.folder_name]) :
        /\ LooksLike(mailbox[msg.folder_name][i], msg)
        /\ \A j \in 1..(i - 1) : ~LooksLike(mailbox[msg.folder_name][j], msg)

ResolvedItem(msg) == mailbox[msg.folder_name][FirstLookingLike(msg)]

SameSubjectAndDate(m1, m2) ==
    /\ m1.folder_name = m2.folder_name
    /\ m1.subject = m2.subject
    /\ m1.received_time.day = m2.received_time.day

SavedFromTheFirstLookAlike ==
    /\ pc = "attachment" => outlook_message = ResolvedItem(messages[mi])
    /\ \A j \in Saves :
          /\ writes[j].source = ResolvedItem(messages[writes[j].mi])
          /\ NamedAfter(writes[j].name, ExistingBefore(j), FormulaOf(writes[j]))

LookAlikesShareTheItem ==
    \A i, j \in Saves :
        SameSubjectAndDate(messages[writes[i].mi], messages[writes[j].mi])
            => writes[i].source = writes[j].source

C28_MessageResolvedBySubjectAndDate ==
    SavedFromTheFirstLookAlike /\ LookAlikesShareTheItem

\* a finished run over two accepted messages of one subject and day: the
\* files saved for both are the attachments of the item stored first, and one
\* of them is not among the classified attachments of its message
C28_Witness ==
    /\ pc = "done"
    /\ Len(messages) = 2
    /\ SameSubjectAndDate(messages[1], messages[2])
    /\ messages[1].received_time # messages[2].received_time
    /\ \E i, j \in Saves :
          /\ writes[i].mi = 1
          /\ writes[j].mi = 2
          /\ writes[i].source = writes[j].source
          /\ SavedFrom(writes[i]) = SavedFrom(writes[j])
    /\ \E j \in Saves :
          /\ writes[j].source.ReceivedTime[2] # messages[writes[j].mi].received_time
          /\ \A k \in 1..Len(messages[writes[j].mi].attachments) :
                messages[writes[j].mi].attachments[k] # SavedFrom(writes[j]).FileName

(***************************************************************************)
(* C23: after a batch completes successfully, be it an automated run       *)
(* through run_automated_extraction whose connection test succeeded or a   *)
(* run through run_extraction that saved its files, the last-run timestamp *)
(* is recorded: get_last_run_time afterwards returns a time of that day,   *)
(* and run_automated_extraction returns True.                              *)
(***************************************************************************)
AutomatedRuns == {"run_now", "check_schedule_run"}

\* a step in which run_automated_extraction returns True
AutomatedBatchCompletes ==
    /\ <<state_file, returned>>' # <<state_file, returned>>
    /\ returned'.op \in AutomatedRuns
    /\ returned'.value

\* the step in which save_attachments returns files to run_extraction
WindowBatchCompletes ==
    /\ pc = "message"
    /\ pc' = "done"
    /\ saved_files # EmptyMap

LastRunIsToday == get_last_run_time(state_file).day = today.day

C23_SuccessfulBatchIsRecorded ==
    [][AutomatedBatchCompletes \/ WindowBatchCompletes => LastRunIsToday']_vars

\* an extraction from the window saved a file, no run is on record, and the
\* check made afterwards finds a run due
C23_Witness ==
    /\ pc = "done"
    /\ saved_files # EmptyMap
    /\ EventsNamed("saved") # {}
    /\ state_file = NoRunRecorded
    /\ returned = Returned("check_on_startup", TRUE, FALSE)

(***************************************************************************)
(* C24: should_run_extraction returns False whenever automation is         *)
(* disabled or today's weekday is not in schedule_days, even if scheduled  *)
(* days were missed; on a scheduled day with automation enabled it returns *)
(* True iff (the time is after today's schedule time and the last run is   *)
(* absent or dated before today) or the last run is absent or a scheduled  *)
(* weekday lies strictly between the last-run date and today.              *)
(***************************************************************************)
Checked == returned.op = "check_on_startup"

ScheduledOn(day) == weekday_name(DateTime(day, 0)) \in config.schedule_days

LastRunAbsent == state_file.last_run = ""

LastRunDay == get_last_run_time(state_file).day

AfterScheduleTime == today.minute > 9 * 60

MissedDay ==
    /\ ~LastRunAbsent
    /\ \E d \in ClockDays \cup ((FirstDay - 3)..FirstDay) :
          LastRunDay < d /\ d < today.day /\ ScheduledOn(d)

DueByTheRule ==
    \/ AfterScheduleTime /\ (LastRunAbsent \/ LastRunDay < today.day)
    \/ LastRunAbsent
    \/ MissedDay

C24_DueOnScheduledDaysOnly ==
    Checked =>
        IF config.automation_enabled /\ ScheduledOn(today.day)
        THEN returned.due = DueByTheRule
        ELSE ~returned.due

\* a check on a scheduled day before the schedule time, with no run on record,
\* that found a run due
C24_Witness ==
    /\ Checked
    /\ config.automation_enabled
    /\ ScheduledOn(today.day)
    /\ ~AfterScheduleTime
    /\ LastRunAbsent
    /\ returned.due

\* a check on a day that is not scheduled, two days after the last run with a
\* scheduled day in between, that found no run due
UnscheduledDayWithMissedRun ==
    /\ Checked
    /\ config.automation_enabled
    /\ ~ScheduledOn(today.day)
    /\ MissedDay
    /\ ~returned.due

(***************************************************************************)
(* C25: once save_last_run has recorded a last run dated today,            *)
(* should_run_extraction returns False at every later time of the same     *)
(* day; one_click_setup resets last_run to None and no operation other     *)
(* than save_last_run writes a time into it, so that setup, check, run,    *)
(* check triggers at most one run per scheduled day only if the run        *)
(* itself reaches save_last_run.                                           *)
(***************************************************************************)
Due == should_run_extraction(config_file, state_file, today)

\* while the recorded run is of today, no check finds a run due
NotDueAgainToday ==
    LastRunIsToday /\ ~LastRunAbsent
        => /\ ~Due
           /\ ~should_run_extraction(config, state_file, today)

AutomatedRunHappens ==
    /\ <<state_file, returned>>' # <<state_file, returned>>
    /\ returned'.op \in AutomatedRuns

\* last_run is written by a run that reached save_last_run, and emptied by
\* a setup
OnlyARunRecords ==
    state_file'.last_run # state_file.last_run
        => \/ /\ state_file'.last_run = isoformat(today)
              /\ returned'.op \in AutomatedRuns
              /\ returned'.value
           \/ /\ state_file'.last_run = ""
              /\ returned'.op = "one_click_setup"
              /\ returned'.value

\* a run triggered by the check leaves a later check of the day without a run
\* to trigger exactly when it recorded itself
TriggeredRunRecordsOrRepeats ==
    AutomatedRunHappens /\ returned'.op = "check_schedule_run"
        => /\ Due
           /\ ~(LastRunIsToday /\ ~LastRunAbsent)
           /\ Due' = (state_file' = state_file)

HandlerReturns(op) ==
    /\ automationVars' # automationVars
    /\ returned'.op = op

SetupFails == HandlerReturns("one_click_setup") /\ ~returned'.value

SetupSucceeds == HandlerReturns("one_click_setup") /\ returned'.value

DisableSucceeds == HandlerReturns("disable_automation") /\ returned'.value

\* what a setup brings about whatever becomes of its file writes
SetupKeepsItsSettings ==
    /\ SetupFails => /\ config'.automation_enabled
                     /\ config'.automation_mode = config.automation_mode
                     /\ state_file' = state_file
    /\ SetupSucceeds => /\ config'.automation_enabled
                        /\ config'.automation_mode
                              \in {config.automation_mode, "startup_only"}
                        /\ state_file' \in {NoRunRecorded, state_file}

\* a disabled configuration asks for no run
DisabledIsNeverDue ==
    /\ ~config.automation_enabled => ~should_run_extraction(config, state_file, today)
    /\ ~config_file.automation_enabled => ~Due

DisableTurnsOff == DisableSucceeds => ~config'.automation_enabled

TurnedOn == ~config.automation_enabled /\ config'.automation_enabled

FileFollowsWrites ==
    config_file' # config_file
        => /\ config_file'.automation_enabled = config'.automation_enabled
           /\ config_file'.schedule_days = config'.schedule_days

AnotherThreadCanStart == Len(workers) < MaxWorkers => ENABLED RunExtraction

ThreadStarts == Len(workers') > Len(workers)

ThreadBegins ==
    \E w \in 1..Len(workers) : workers[w].pc = "started" /\ workers'[w].pc # "started"

ThreadEnds ==
    \E w \in 1..Len(workers) : workers[w].pc = "finishing" /\ workers'[w].pc = "done"

ButtonFollowsTheThreads ==
    /\ ThreadStarts => workers' = Append(workers, StartedWorker) /\ UNCHANGED extract_btn
    /\ ThreadBegins \/ (testing' /\ ~testing) => extract_btn' = "disabled"
    /\ ThreadEnds \/ (testing /\ ~testing') => extract_btn' = "normal"
    /\ extract_btn' # extract_btn
          => ThreadBegins \/ ThreadEnds \/ testing' # testing

\* the names in the save folder when the thread of write j looked for a free one
SeenBy(j) ==
    {k \in DOMAIN disk : disk[k].original_name = ""}
        \cup {str_lower(writes[i].name) : i \in 1..writes[j].seen}

\* every thread saves to a name it saw free; the name is taken at the save
\* exactly when another save went to it in between
OverwritesComeFromRaces ==
    \A j \in Saves :
        /\ str_lower(writes[j].name) \notin SeenBy(j)
        /\ writes[j].existed
              = \E i \in (writes[j].seen + 1)..(j - 1) :
                    str_lower(writes[i].name) = str_lower(writes[j].name)

C29_ThreadsRaceForNames ==
    /\ [](AnotherThreadCanStart /\ OverwritesComeFromRaces)
    /\ [][ButtonFollowsTheThreads]_vars

\* two threads have finished; both picked the same name before either saved,
\* the second save replaced the file of the first, and each holds the name in
\* its result
C29_Witness ==
    /\ Len(workers) = 2
    /\ workers[1].pc = "done"
    /\ workers[2].pc = "done"
    /\ Len(writes) = 2
    /\ writes[1].worker # writes[2].worker
    /\ writes[1].name = writes[2].name
    /\ writes[2].seen = 0
    /\ writes[2].existed
    /\ writes[1].name \in DOMAIN workers[1].saved_files
    /\ writes[1].name \in DOMAIN workers[2].saved_files

\* an extraction is running while the button is enabled again
ButtonEnabledDuringExtraction ==
    /\ extract_btn = "normal"
    /\ \E w \in 1..Len(workers) : workers[w].pc = "saving"

====
